---- MODULE Spec2Model ----
(***************************************************************************)
(* A model of the LVM bytecode generator of Souffle (LVMGenerator.h): the   *)
(* RelationEncoder, which interns relations into dense ids, and the         *)
(* LVMGenerator, a recursive visitor that lowers a RAM tree into a linear   *)
(* stream of words in two walks.                                            *)
(***************************************************************************)
EXTENDS Integers, Sequences, FiniteSets, TLC

VARIABLES
    pc,                   \* position in the lifecycle of the objects
    entry,                \* the RAM node handed to the generator
    ramDomainSize,        \* RAM_DOMAIN_SIZE of the build (bits of a RamDomain)
    shiftUB,              \* what the build makes of an int shift by >= 32 bits
    relNameToIndex,       \* RelationEncoder::relNameToIndex
    relationMap,          \* RelationEncoder::relationMap
    symbolTable,          \* the SymbolTable shared with the interpreter
    code,                 \* LVMCode: the stream of words
    origin,               \* history: which push_back produced each word
    ioDirectives,         \* LVMCode::getIODirectives()
    currentAddressLabel,  \* LVMGenerator::currentAddressLabel
    addressMap,           \* LVMGenerator::addressMap
    iteratorIndex,        \* LVMGenerator::iteratorIndex
    timerIndex,           \* LVMGenerator::timerIndex
    setLog,               \* history: the setAddress calls of the current walk
    firstWalk,            \* history: the generator as the first walk left it
    lastCall,             \* history: the last encodeRelation call and its result
    machine,              \* the interpreter that runs the stream
    adornment             \* Adornment::run: its locals and the members it fills

vars == <<pc, entry, ramDomainSize, shiftUB, relNameToIndex, relationMap,
          symbolTable, code, origin, ioDirectives, currentAddressLabel,
          addressMap, iteratorIndex, timerIndex, setLog, firstWalk, lastCall,
          machine, adornment>>

(***************************************************************************)
(* The opcodes: the enumerators of LVM_Type, numbered in order.             *)
(***************************************************************************)
LVM_Type ==
    << "LVM_Number", "LVM_TupleElement", "LVM_AutoIncrement",
       "LVM_OP_ORD", "LVM_OP_STRLEN", "LVM_OP_NEG", "LVM_OP_BNOT",
       "LVM_OP_LNOT", "LVM_OP_TONUMBER", "LVM_OP_TOSTRING",
       "LVM_OP_ADD", "LVM_OP_SUB", "LVM_OP_MUL", "LVM_OP_DIV", "LVM_OP_EXP",
       "LVM_OP_MOD", "LVM_OP_BAND", "LVM_OP_BOR", "LVM_OP_BXOR",
       "LVM_OP_LAND", "LVM_OP_LOR", "LVM_OP_MAX", "LVM_OP_MIN", "LVM_OP_CAT",
       "LVM_OP_SUBSTR",
       "LVM_OP_EQ", "LVM_OP_NE", "LVM_OP_LT", "LVM_OP_LE", "LVM_OP_GT",
       "LVM_OP_GE", "LVM_OP_MATCH", "LVM_OP_NOT_MATCH", "LVM_OP_CONTAINS",
       "LVM_OP_NOT_CONTAINS",
       "LVM_UserDefinedOperator", "LVM_PackRecord", "LVM_Argument",
       "LVM_True", "LVM_False", "LVM_Conjunction", "LVM_Negation",
       "LVM_EmptinessCheck", "LVM_ExistenceCheck", "LVM_ExistenceCheckOneArg",
       "LVM_ContainCheck", "LVM_Constraint",
       "LVM_Scan", "LVM_Choice", "LVM_IndexScan", "LVM_IndexChoice",
       "LVM_Search", "LVM_UnpackRecord", "LVM_Aggregate",
       "LVM_IndexAggregate", "LVM_Aggregate_COUNT", "LVM_Aggregate_Return",
       "LVM_Filter", "LVM_Project", "LVM_ReturnValue",
       "LVM_Sequence", "LVM_Parallel", "LVM_Stop_Parallel", "LVM_Loop",
       "LVM_Exit", "LVM_IncIterationNumber", "LVM_ResetIterationNumber",
       "LVM_LogRelationTimer", "LVM_LogTimer", "LVM_StopLogTimer",
       "LVM_DebugInfo", "LVM_Stratum", "LVM_Create", "LVM_Clear", "LVM_Drop",
       "LVM_LogSize", "LVM_Load", "LVM_Store", "LVM_Fact", "LVM_Query",
       "LVM_Merge", "LVM_Swap",
       "LVM_Goto", "LVM_Jmpnz", "LVM_Jmpez", "LVM_STOP", "LVM_NOP",
       "LVM_ITER_InitFullIndex", "LVM_ITER_InitRangeIndex",
       "LVM_ITER_InitRangeIndexOneArg", "LVM_ITER_NotAtEnd",
       "LVM_ITER_Select", "LVM_ITER_Inc" >>

LVM_Value ==
    [name \in {LVM_Type[i] : i \in DOMAIN LVM_Type} |->
        (CHOOSE i \in DOMAIN LVM_Type : LVM_Type[i] = name) - 1]

LVM(name) == LVM_Value[name]

LVM_STOP == LVM("LVM_STOP")

(***************************************************************************)
(* RamDomain: the extreme values of the (32 bit) domain.                    *)
(***************************************************************************)
MAX_RAM_DOMAIN == 2147483647

MIN_RAM_DOMAIN == (-2147483647) - 1

(***************************************************************************)
(* The generator as a record g, threaded through the visitor:               *)
(* the fields are the variables of the same names.                         *)
(***************************************************************************)
\* code->push_back(word); t names the kind of the word for the history:
\* "op" an LVM_Type enumerator, "target" a branch target, "rel" a relation
\* id, "iter" an iterator slot, "timer" a timer slot, "sym" a symbol id,
\* "io" an index of the I/O sidetable, "mask" a type-mask word, "arg" any
\* other operand. lab is the label a target was looked up for, or -1.
push_back(g, word, t, lab) ==
    [g EXCEPT !.code = Append(@, word),
              !.origin = Append(@, [t |-> t, lab |-> lab])]

emitOp(g, name) == push_back(g, LVM(name), "op", -1)

emit(g, word, t) == push_back(g, word, t, -1)

\* code->size()
size(g) == Len(g.code)

\* The body of a function that runs several statements is written as the
\* tuple of the generators its statements leave one after the other, in the
\* order the statements run: the function leaves the last of them.

\* a faulty allocation: the counter not advanced, every label the same
getNewAddressLabel_sameLabel(g) == g

\* getNewAddressLabel(): the label returned, and the generator afterwards
getNewAddressLabel(g) == [g EXCEPT !.currentAddressLabel = @ + 1]

\* getNewIterator()
getNewIterator_sharedSlot(g) == g

getNewIterator(g) == [g EXCEPT !.iteratorIndex = @ + 1]

\* getNewTimer()
getNewTimer_sameSlot(g) == g

getNewTimer(g) == [g EXCEPT !.timerIndex = @ + 1]

\* lookupAddress(addressLabel): 0 if the label does not exist
lookupAddress(g, addressLabel) ==
    IF addressLabel < Len(g.addressMap)
    THEN g.addressMap[addressLabel + 1]
    ELSE 0

\* addressMap.resize(n): new elements are value-initialised to 0
resize(m, n) ==
    IF n <= Len(m) THEN SubSeq(m, 1, n)
    ELSE m \o [i \in 1..(n - Len(m)) |-> 0]

\* setAddress(addressLabel, value)
setAddress(g, addressLabel, value) ==
    LET m == IF addressLabel >= Len(g.addressMap)
             THEN resize(g.addressMap, addressLabel + 1)
             ELSE g.addressMap
    IN  [g EXCEPT !.addressMap = [m EXCEPT ![addressLabel + 1] = value],
                  !.setLog = Append(@, <<addressLabel, value>>)]

\* code->push_back(lookupAddress(L))
emitLookup(g, L) == push_back(g, lookupAddress(g, L), "target", L)

\* symbolTable.lookup(symbol): interns the string and returns its index
symbolIndex(table, symbol) ==
    IF \E i \in DOMAIN table : table[i] = symbol
    THEN (CHOOSE i \in DOMAIN table : table[i] = symbol) - 1
    ELSE Len(table)

symbolInsert(table, symbol) ==
    IF \E i \in DOMAIN table : table[i] = symbol
    THEN table
    ELSE Append(table, symbol)

\* code->push_back(symbolTable.lookup(symbol))
emitSymbol(g, symbol) ==
    emit([g EXCEPT !.symbolTable = symbolInsert(@, symbol)],
         symbolIndex(g.symbolTable, symbol), "sym")

(***************************************************************************)
(* RelationEncoder. A RamRelation is a record [name, arity,                 *)
(* representation]; a descriptor (an LVMRelation object) records the class  *)
(* constructed, the arity, the name and the index factory handed over.      *)
(***************************************************************************)
MAX_DIRECT_INDEX_SIZE == 12

\* the value of a unique_ptr that holds no object
nullRelation == [class |-> "nullptr"]

\* a faulty createRelation: the threshold compared with >= instead of >
createRelation_ge(rel) ==
    IF rel.arity >= MAX_DIRECT_INDEX_SIZE
    THEN [class |-> "LVMIndirectRelation", arity |-> rel.arity,
          name |-> rel.name, index |-> "default"]
    ELSE [class |-> "LVMRelation", arity |-> rel.arity,
          name |-> rel.name, index |-> "default"]

\* createRelation(rel)
createRelation(rel) ==
    IF rel.arity > MAX_DIRECT_INDEX_SIZE
    THEN [class |-> "LVMIndirectRelation", arity |-> rel.arity,
          name |-> rel.name, index |-> "default"]
    ELSE CASE rel.representation = "BTREE" ->
                [class |-> "LVMRelation", arity |-> rel.arity,
                 name |-> rel.name, index |-> "default"]
           [] rel.representation = "BRIE" ->
                [class |-> "LVMRelation", arity |-> rel.arity,
                 name |-> rel.name, index |-> "createBrieIndex"]
           [] rel.representation = "EQREL" ->
                [class |-> "LVMEqRelation", arity |-> rel.arity,
                 name |-> rel.name, index |-> "default"]
           [] rel.representation = "DEFAULT" ->
                [class |-> "LVMRelation", arity |-> rel.arity,
                 name |-> rel.name, index |-> "default"]
           [] OTHER -> nullRelation

\* the value encodeRelation(rel) returns, for an encoder (or generator) e
encodeRelationId(e, rel) ==
    IF rel.name \notin DOMAIN e.relNameToIndex
    THEN Cardinality(DOMAIN e.relNameToIndex) + 1 - 1
    ELSE e.relNameToIndex[rel.name]

\* a faulty insert: the size taken after the insertion instead of before
insertName_after(map, relationName) ==
    [n \in DOMAIN map \cup {relationName} |->
        IF n \in DOMAIN map THEN map[n] ELSE Cardinality(DOMAIN map) + 1]

\* the name map after relNameToIndex.insert(make_pair(name, size()))
insertName(map, relationName) ==
    [n \in DOMAIN map \cup {relationName} |->
        IF n \in DOMAIN map THEN map[n] ELSE Cardinality(DOMAIN map)]

\* a faulty encodeRelation: a descriptor created without the lookup of the name
encodeRelation_always(e, rel) ==
    [e EXCEPT !.relNameToIndex = insertName(@, rel.name),
              !.relationMap = Append(@, createRelation(rel))]

\* the encoder (or generator) e after encodeRelation(rel)
encodeRelation(e, rel) ==
    IF rel.name \notin DOMAIN e.relNameToIndex
    THEN [e EXCEPT !.relNameToIndex = insertName(@, rel.name),
                   !.relationMap = Append(@, createRelation(rel))]
    ELSE e

\* getSize()
getSize(e) == Len(e.relationMap)

\* code->push_back(relationEncoder.encodeRelation(rel))
emitRelation(g, rel) ==
    emit(encodeRelation(g, rel), encodeRelationId(g, rel), "rel")

(***************************************************************************)
(* The visitor. A RAM node is a record whose field k names its class; the   *)
(* other fields are named after the getters of the class.                   *)
(***************************************************************************)
RECURSIVE visit(_, _, _)

isRamUndefValue(v) == v.k = "UndefValue"

\* for (auto& arg : args) visit(arg, exitAddress);
RECURSIVE visitInOrder(_, _, _)
visitInOrder(args, exitAddress, g) ==
    IF args = <<>> THEN g
    ELSE LET g1 == visit(Head(args), exitAddress, g)
         IN  <<g1, visitInOrder(Tail(args), exitAddress, g1)>>[2]

\* for (size_t i = hi; i-- > lo;) if (!isRamUndefValue(values[i])) visit(values[i])
\* with the columns counted from 1: the loop over hi, hi - 1, .., lo, as its
\* upper half followed by its lower half
RECURSIVE visitDefinedRange(_, _, _, _, _)
visitDefinedRange(values, lo, hi, exitAddress, g) ==
    IF lo > hi THEN g
    ELSE IF lo = hi
    THEN IF isRamUndefValue(values[lo]) THEN g
         ELSE visit(values[lo], exitAddress, g)
    ELSE LET mid == (lo + hi) \div 2
             g1 == visitDefinedRange(values, mid + 1, hi, exitAddress, g)
         IN  <<g1, visitDefinedRange(values, lo, mid, exitAddress, g1)>>[2]

\* a faulty loop: for (size_t i = 0; i < n; ++i), the columns in ascending order
visitDefinedFrom_ascending(values, n, exitAddress, g) ==
    visitInOrder(SelectSeq(SubSeq(values, 1, n), LAMBDA v : ~isRamUndefValue(v)),
                 exitAddress, g)

\* for (size_t i = n; i-- > 0;) if (!isRamUndefValue(values[i])) visit(values[i])
visitDefinedFrom(values, n, exitAddress, g) ==
    visitDefinedRange(values, 1, n, exitAddress, g)

\* Visit RAM Expressions

visitNumber(num, exitAddress, g) ==
    emit(emitOp(g, "LVM_Number"), num.constant, "arg")

visitTupleElement(access, exitAddress, g) ==
    emit(emit(emitOp(g, "LVM_TupleElement"), access.tupleId, "arg"),
         access.element, "arg")

visitAutoIncrement(inc, exitAddress, g) == emitOp(g, "LVM_AutoIncrement")

UnaryFunctorOps == {"ORD", "STRLEN", "NEG", "BNOT", "LNOT", "TONUMBER", "TOSTRING"}

BinaryFunctorOps ==
    {"ADD", "SUB", "MUL", "DIV", "EXP", "MOD", "BAND", "BOR", "BXOR", "LAND", "LOR"}

Reverse(s) == [i \in 1..Len(s) |-> s[Len(s) + 1 - i]]

visitIntrinsicOperator(op, exitAddress, g) ==
    LET args == op.args
        opcode == "LVM_OP_" \o op.operator
    IN  CASE op.operator \in UnaryFunctorOps ->
               emitOp(visit(args[1], exitAddress, g), opcode)
          [] op.operator \in BinaryFunctorOps ->
               emitOp(visit(args[2], exitAddress,
                            visit(args[1], exitAddress, g)), opcode)
          [] op.operator \in {"MAX", "MIN"} ->
               emit(emitOp(visitInOrder(args, exitAddress, g), opcode),
                    Len(args), "arg")
          [] op.operator = "CAT" ->
               emit(emitOp(visitInOrder(Reverse(args), exitAddress, g), opcode),
                    Len(args), "arg")
          [] op.operator = "SUBSTR" ->
               emitOp(visit(args[3], exitAddress,
                        visit(args[2], exitAddress,
                            visit(args[1], exitAddress, g))), opcode)
          [] OTHER -> g

visitUserDefinedOperator_inOrder(op, exitAddress, g) ==
    LET g1 == visitInOrder(op.args, exitAddress, g)
        g2 == emitOp(g1, "LVM_UserDefinedOperator")
        g3 == emitSymbol(g2, op.name)
        g4 == emitSymbol(g3, op.type)
    IN  <<g1, g2, g3, g4, emit(g4, Len(op.args), "arg")>>[5]

visitUserDefinedOperator(op, exitAddress, g) ==
    LET g1 == visitInOrder(Reverse(op.args), exitAddress, g)
        g2 == emitOp(g1, "LVM_UserDefinedOperator")
        g3 == emitSymbol(g2, op.name)
        g4 == emitSymbol(g3, op.type)
    IN  <<g1, g2, g3, g4, emit(g4, Len(op.args), "arg")>>[5]

visitPackRecord(pack, exitAddress, g) ==
    emit(emitOp(visitInOrder(pack.args, exitAddress, g), "LVM_PackRecord"),
         Len(pack.args), "arg")

visitSubroutineArgument(arg, exitAddress, g) ==
    emit(emitOp(g, "LVM_Argument"), arg.argument, "arg")

\* Visit RAM Conditions

visitTrue(ltrue, exitAddress, g) == emitOp(g, "LVM_True")

visitFalse(lfalse, exitAddress, g) == emitOp(g, "LVM_False")

visitConjunction(conj, exitAddress, g) ==
    LET g1 == visit(conj.lhs, exitAddress, g)
        g2 == visit(conj.rhs, exitAddress, g1)
    IN  <<g1, g2, emitOp(g2, "LVM_Conjunction")>>[3]

visitNegation(neg, exitAddress, g) ==
    LET g1 == visit(neg.operand, exitAddress, g)
    IN  <<g1, emitOp(g1, "LVM_Negation")>>[2]

visitEmptinessCheck(emptiness, exitAddress, g) ==
    emitRelation(emitOp(g, "LVM_EmptinessCheck"), emptiness.relation)

\* a faulty visitConstraint: the marker after the operands
visitConstraint_postOrder(relOp, exitAddress, g) ==
    LET g2 == visit(relOp.lhs, exitAddress, g)
        g3 == visit(relOp.rhs, exitAddress, g2)
        g4 == emitOp(g3, "LVM_Constraint")
    IN  <<g2, g3, g4, emitOp(g4, "LVM_OP_" \o relOp.operator)>>[4]

visitConstraint(relOp, exitAddress, g) ==
    LET g1 == emitOp(g, "LVM_Constraint")
        g2 == visit(relOp.lhs, exitAddress, g1)
        g3 == visit(relOp.rhs, exitAddress, g2)
    IN  <<g1, g2, g3, emitOp(g3, "LVM_OP_" \o relOp.operator)>>[4]

(***************************************************************************)
(* Words as two's complement integers. A type-mask element is an int        *)
(* (32 bits); the mask word is a RamDomain of ramDomainSize bits. An int    *)
(* converted to a wider RamDomain keeps its value (sign extension), so a    *)
(* mask word is always the value of a 32 bit int.                           *)
(***************************************************************************)
INT_BITS == 32

\* the bits 0..31 that are 1 in the two's complement form of the int v
bitsOfInt(v) ==
    LET u == IF v < 0 THEN (v + 2^30) + 2^30 ELSE v
    IN  {j \in 0..(INT_BITS - 2) : (u \div 2^j) % 2 = 1}
        \cup (IF v < 0 THEN {INT_BITS - 1} ELSE {})

\* the sum of 2^j over the j of S in lo..hi
RECURSIVE sumOfBits(_, _, _)
sumOfBits(S, lo, hi) ==
    IF lo = hi THEN (IF lo \in S THEN 2^lo ELSE 0)
    ELSE sumOfBits(S, lo, (lo + hi) \div 2)
            + sumOfBits(S, ((lo + hi) \div 2) + 1, hi)

\* the int whose two's complement form has exactly the bits S (of 0..31)
intOfBits(S) ==
    (IF (INT_BITS - 1) \in S THEN (-(2^30)) - 2^30 ELSE 0)
        + sumOfBits(S, 0, INT_BITS - 2)

\* the bits of (typeMask[projectedIndex] << j), computed in int. A bit
\* shifted to 31 is the sign bit (the int is INT_MIN); a shift by 32 or more
\* is undefined: the count is taken modulo 32 (x86, AArch64) or the result
\* is 0 (ARM), as the build has it.
shiftLeft(m, j, ub) ==
    IF j < INT_BITS
    THEN {i + j : i \in bitsOfInt(m)} \cap 0..(INT_BITS - 1)
    ELSE IF ub = "wrap"
         THEN {i + (j % INT_BITS) : i \in bitsOfInt(m)} \cap 0..(INT_BITS - 1)
         ELSE {}

\* bit j of a word of W bits that holds the value v
bitOfWord(v, j) ==
    IF j < INT_BITS THEN j \in bitsOfInt(v) ELSE v < 0

\* size_t numOfTypeMasks = arity / RAM_DOMAIN_SIZE + (arity % RAM_DOMAIN_SIZE != 0)
numOfTypeMasks(arity, W) ==
    (arity \div W) + (IF arity % W # 0 THEN 1 ELSE 0)

\* the inner loop over j, for the word i: RamDomain types = 0; then
\* types |= (typeMask[i * W + j] << j) for each j < W with i * W + j < arity.
\* The word is the or of the shifted ints, each converted to a RamDomain.
packTypes(i, arity, typeMask, W, ub) ==
    intOfBits(UNION {shiftLeft(typeMask[i * W + j + 1], j, ub) :
                        j \in {j \in 0..(W - 1) : i * W + j < arity}})

\* the outer loop over i: code->push_back(types) for each mask word
emitTypeMasks(arity, typeMask, g) ==
    LET words == [i \in 1..numOfTypeMasks(arity, g.ramDomainSize) |->
                    packTypes(i - 1, arity, typeMask, g.ramDomainSize, g.shiftUB)]
    IN  [g EXCEPT !.code = @ \o words,
                  !.origin = @ \o [i \in DOMAIN words |->
                                        [t |-> "mask", lab |-> -1]]]

emitExistenceCheckInst(arity, relId, indexPos, typeMask, g) ==
    LET g1 == IF numOfTypeMasks(arity, g.ramDomainSize) = 1
              THEN emitOp(g, "LVM_ExistenceCheckOneArg")
              ELSE emitOp(g, "LVM_ExistenceCheck")
        g2 == emit(emit(g1, relId, "rel"), indexPos, "arg")
    IN  <<g1, g2, emitTypeMasks(arity, typeMask, g2)>>[3]

emitRangeIndexInst(arity, relId, indexPos, counterLabel, typeMask, g) ==
    LET g1 == IF numOfTypeMasks(arity, g.ramDomainSize) = 1
              THEN emitOp(g, "LVM_ITER_InitRangeIndexOneArg")
              ELSE emitOp(g, "LVM_ITER_InitRangeIndex")
        g2 == emit(emit(emit(g1, counterLabel, "iter"), relId, "rel"),
                   indexPos, "arg")
    IN  <<g1, g2, emitTypeMasks(arity, typeMask, g2)>>[3]

\* getIndexPos(node): the position the index analysis gives for the node
getIndexPos(node) == node.indexPos

\* std::vector<int> typeMask(arity), with typeMask[i] = 1 for the defined
\* values among the first n
typeMaskOf(values, arity, n) ==
    [i \in 1..arity |-> IF i <= n /\ ~isRamUndefValue(values[i]) THEN 1 ELSE 0]

visitExistenceCheck(exists, exitAddress, g) ==
    LET values == exists.values
        arity == exists.relation.arity
        relId == encodeRelationId(g, exists.relation)
        g1 == encodeRelation(g, exists.relation)
        typeMask == typeMaskOf(values, arity, arity)
        emptinessCheck == \A i \in 1..arity : isRamUndefValue(values[i])
        fullExistenceCheck == \A i \in 1..arity : ~isRamUndefValue(values[i])
        g2 == visitDefinedFrom(values, arity, exitAddress, g1)
        g3 == IF emptinessCheck
              THEN emitOp(emit(emitOp(g2, "LVM_EmptinessCheck"), relId, "rel"),
                          "LVM_Negation")
              ELSE IF fullExistenceCheck
              THEN emit(emitOp(g2, "LVM_ContainCheck"), relId, "rel")
              ELSE emitExistenceCheckInst(arity, relId, getIndexPos(exists),
                                          typeMask, g2)
    IN  <<g1, g2, g3>>[3]

\* the columns the loop "for (size_t i = arity - 2; i-- > 0;)" goes through
provenanceColumns(arity) == arity - 2

visitProvenanceExistenceCheck(provExists, exitAddress, g) ==
    LET values == provExists.values
        arity == provExists.relation.arity
        relId == encodeRelationId(g, provExists.relation)
        g1 == encodeRelation(g, provExists.relation)
        n == provenanceColumns(arity)
        typeMask == typeMaskOf(values, arity, n)
        emptinessCheck == \A i \in 1..n : isRamUndefValue(values[i])
        g2 == visitDefinedFrom(values, n, exitAddress, g1)
        g3 == IF emptinessCheck
              THEN emitOp(emit(emitOp(g2, "LVM_EmptinessCheck"), relId, "rel"),
                          "LVM_Negation")
              ELSE emitExistenceCheckInst(arity, relId, getIndexPos(provExists),
                                          typeMask, g2)
    IN  <<g1, g2, g3>>[3]

\* Visit RAM Operations

\* visitNestedOperation(nested, exitAddress), of the base class, is
\* visit(nested.operation, exitAddress, g) wherever it is called below.

visitTupleOperation(search, exitAddress, g) ==
    LET g1 == emitOp(g, "LVM_Search")
        g2 == emit(g1, IF search.profileText = "" THEN 0 ELSE 1, "arg")
        g3 == emitSymbol(g2, search.profileText)
    IN  <<g1, g2, g3, visit(search.operation, exitAddress, g3)>>[4]

\* LVM_ITER_NotAtEnd, counterLabel, LVM_Jmpez, lookupAddress(L),
\* LVM_ITER_Select, counterLabel, tupleId
emitLoopHead(g, counterLabel, L, tupleId) ==
    LET g1 == emit(emitOp(g, "LVM_ITER_NotAtEnd"), counterLabel, "iter")
        g2 == emitLookup(emitOp(g1, "LVM_Jmpez"), L)
        g3 == emit(emitOp(g2, "LVM_ITER_Select"), counterLabel, "iter")
    IN  emit(g3, tupleId, "arg")

\* a faulty loop tail: the iterator incremented and no jump back
emitLoopTail_noGoto(g, counterLabel, address_L0) ==
    emit(emitOp(g, "LVM_ITER_Inc"), counterLabel, "iter")

\* LVM_ITER_Inc, counterLabel, LVM_Goto, address_L0
emitLoopTail(g, counterLabel, address_L0) ==
    LET g1 == emit(emitOp(g, "LVM_ITER_Inc"), counterLabel, "iter")
    IN  emit(emitOp(g1, "LVM_Goto"), address_L0, "target")

\* LVM_ITER_InitFullIndex, counterLabel, relId
emitInitFullIndex(g, counterLabel, rel) ==
    emitRelation(emit(emitOp(g, "LVM_ITER_InitFullIndex"), counterLabel, "iter"),
                 rel)

\* the range pattern of an indexed operation: the defined values, then the
\* init of the full index or of the range index
emitInitIndex(node, counterLabel, exitAddress, g) ==
    LET patterns == node.rangePattern
        arity == node.relation.arity
        relId == encodeRelationId(g, node.relation)
        g1 == encodeRelation(g, node.relation)
        typeMask == typeMaskOf(patterns, arity, arity)
        fullIndexSearch == \A i \in 1..arity : isRamUndefValue(patterns[i])
        g2 == visitDefinedFrom(patterns, arity, exitAddress, g1)
        g3 == IF fullIndexSearch
              THEN emit(emit(emitOp(g2, "LVM_ITER_InitFullIndex"),
                             counterLabel, "iter"), relId, "rel")
              ELSE emitRangeIndexInst(arity, relId, getIndexPos(node),
                                      counterLabel, typeMask, g2)
    IN  <<g1, g2, g3>>[3]

visitScan(scan, exitAddress, g) ==
    LET counterLabel == g.iteratorIndex
        L1 == g.currentAddressLabel
        g1 == getNewAddressLabel(getNewIterator(emitOp(g, "LVM_Scan")))
        g2 == emitInitFullIndex(g1, counterLabel, scan.relation)
        address_L0 == size(g2)
        g3 == emitLoopHead(g2, counterLabel, L1, scan.tupleId)
        g4 == visitTupleOperation(scan, lookupAddress(g3, L1), g3)
        g5 == emitLoopTail(g4, counterLabel, address_L0)
    IN  <<g1, g2, g3, g4, g5, setAddress(g5, L1, size(g5))>>[6]

\* a faulty visitChoice: the nested operation inside the loop
visitChoice_everyMatch(choice, exitAddress, g) ==
    LET counterLabel == g.iteratorIndex
        L1 == g.currentAddressLabel
        L2 == g.currentAddressLabel + 1
        g1 == getNewAddressLabel(getNewAddressLabel(
                    getNewIterator(emitOp(g, "LVM_Choice"))))
        g2 == emitInitFullIndex(g1, counterLabel, choice.relation)
        address_L0 == size(g2)
        g3 == emitLoopHead(g2, counterLabel, L2, choice.tupleId)
        g4 == visit(choice.condition, exitAddress, g3)
        g5 == emitLookup(emitOp(g4, "LVM_Jmpez"), L1)
        g6 == visitTupleOperation(choice, exitAddress, g5)
        g7 == setAddress(g6, L1, size(g6))
        g8 == emitLoopTail(g7, counterLabel, address_L0)
    IN  <<g1, g2, g3, g4, g5, g6, g7, g8, setAddress(g8, L2, size(g8))>>[9]

\* a faulty visitChoice: the nested operation given the end of the choice
\* as its exit address
visitChoice_installs(choice, exitAddress, g) ==
    LET counterLabel == g.iteratorIndex
        L1 == g.currentAddressLabel
        L2 == g.currentAddressLabel + 1
        g1 == getNewAddressLabel(getNewAddressLabel(
                    getNewIterator(emitOp(g, "LVM_Choice"))))
        g2 == emitInitFullIndex(g1, counterLabel, choice.relation)
        address_L0 == size(g2)
        g3 == emitLoopHead(g2, counterLabel, L2, choice.tupleId)
        g4 == visit(choice.condition, exitAddress, g3)
        g5 == emitLookup(emitOp(g4, "LVM_Jmpnz"), L1)
        g6 == emitLoopTail(g5, counterLabel, address_L0)
        g7 == setAddress(g6, L1, size(g6))
        g8 == visitTupleOperation(choice, lookupAddress(g7, L2), g7)
    IN  <<g1, g2, g3, g4, g5, g6, g7, g8, setAddress(g8, L2, size(g8))>>[9]

visitChoice(choice, exitAddress, g) ==
    LET counterLabel == g.iteratorIndex
        L1 == g.currentAddressLabel
        L2 == g.currentAddressLabel + 1
        g1 == getNewAddressLabel(getNewAddressLabel(
                    getNewIterator(emitOp(g, "LVM_Choice"))))
        g2 == emitInitFullIndex(g1, counterLabel, choice.relation)
        address_L0 == size(g2)
        g3 == emitLoopHead(g2, counterLabel, L2, choice.tupleId)
        g4 == visit(choice.condition, exitAddress, g3)
        g5 == emitLookup(emitOp(g4, "LVM_Jmpnz"), L1)
        g6 == emitLoopTail(g5, counterLabel, address_L0)
        g7 == setAddress(g6, L1, size(g6))
        g8 == visitTupleOperation(choice, exitAddress, g7)
    IN  <<g1, g2, g3, g4, g5, g6, g7, g8, setAddress(g8, L2, size(g8))>>[9]

visitIndexScan(scan, exitAddress, g) ==
    LET counterLabel == g.iteratorIndex
        L1 == g.currentAddressLabel
        g1 == getNewAddressLabel(getNewIterator(emitOp(g, "LVM_IndexScan")))
        g2 == emitInitIndex(scan, counterLabel, exitAddress, g1)
        address_L0 == size(g2)
        g3 == emitLoopHead(g2, counterLabel, L1, scan.tupleId)
        g4 == visitTupleOperation(scan, lookupAddress(g3, L1), g3)
        g5 == emitLoopTail(g4, counterLabel, address_L0)
    IN  <<g1, g2, g3, g4, g5, setAddress(g5, L1, size(g5))>>[6]

visitIndexChoice(indexChoice, exitAddress, g) ==
    LET counterLabel == g.iteratorIndex
        L1 == g.currentAddressLabel
        L2 == g.currentAddressLabel + 1
        g1 == getNewAddressLabel(getNewAddressLabel(
                    getNewIterator(emitOp(g, "LVM_IndexChoice"))))
        g2 == emitInitIndex(indexChoice, counterLabel, exitAddress, g1)
        address_L0 == size(g2)
        g3 == emitLoopHead(g2, counterLabel, L2, indexChoice.tupleId)
        g4 == visit(indexChoice.condition, exitAddress, g3)
        g5 == emitLookup(emitOp(g4, "LVM_Jmpnz"), L1)
        g6 == emitLoopTail(g5, counterLabel, address_L0)
        g7 == setAddress(g6, L1, size(g6))
        g8 == visitTupleOperation(indexChoice, exitAddress, g7)
    IN  <<g1, g2, g3, g4, g5, g6, g7, g8, setAddress(g8, L2, size(g8))>>[9]

visitUnpackRecord(lookup, exitAddress, g) ==
    LET g1 == emitOp(visit(lookup.expression, exitAddress, g), "LVM_UnpackRecord")
        L0 == g1.currentAddressLabel
        g2 == getNewAddressLabel(g1)
        g3 == emit(emit(g2, lookup.arity, "arg"), lookup.tupleId, "arg")
        g4 == emitLookup(g3, L0)
        g5 == visitTupleOperation(lookup, exitAddress, g4)
    IN  <<g1, g2, g3, g4, g5, setAddress(g5, L0, size(g5))>>[6]

\* the test of the count shortcut: function == COUNT and the condition is a RamTrue
isCountShortcut_never(aggregate) == FALSE

isCountShortcut(aggregate) ==
    aggregate.function = "COUNT" /\ aggregate.condition.k = "True"

\* the seed pushed for the aggregate function: LVM_Number, value
emitInitValue_zero(g, function) == emit(emitOp(g, "LVM_Number"), 0, "arg")

emitInitValue(g, function) ==
    emit(emitOp(g, "LVM_Number"),
         CASE function = "MIN" -> MAX_RAM_DOMAIN
           [] function = "MAX" -> MIN_RAM_DOMAIN
           [] OTHER -> 0,
         "arg")

\* the fold pushed for the aggregate function
\* a faulty fold: min and max exchanged, count and sum as they are
emitFold_swapped(g, function) ==
    CASE function = "MIN" -> emit(emitOp(g, "LVM_OP_MAX"), 2, "arg")
      [] function = "MAX" -> emit(emitOp(g, "LVM_OP_MIN"), 2, "arg")
      [] function = "COUNT" ->
            emitOp(emit(emitOp(g, "LVM_Number"), 1, "arg"), "LVM_OP_ADD")
      [] OTHER -> emitOp(g, "LVM_OP_ADD")

emitFold(g, function) ==
    CASE function = "MIN" -> emit(emitOp(g, "LVM_OP_MIN"), 2, "arg")
      [] function = "MAX" -> emit(emitOp(g, "LVM_OP_MAX"), 2, "arg")
      [] function = "COUNT" ->
            emitOp(emit(emitOp(g, "LVM_Number"), 1, "arg"), "LVM_OP_ADD")
      [] OTHER -> emitOp(g, "LVM_OP_ADD")

\* what visitAggregate and visitIndexAggregate do once the iterator is
\* initialised: the shortcut or the loop, the return of the result, the
\* test of min and max against the seed, the nested operation
aggregateRest(aggregate, counterLabel, L1, L2, exitAddress, g) ==
    LET gs == emit(emitOp(g, "LVM_Aggregate_COUNT"), counterLabel, "iter")
        g1 == emitInitValue(g, aggregate.function)
        address_L0 == size(g1)
        g2 == emitLoopHead(g1, counterLabel, L1, aggregate.tupleId)
        endOfLoop == g2.currentAddressLabel
        g3 == getNewAddressLabel(g2)
        g4 == IF aggregate.condition.k # "True"
              THEN emitLookup(emitOp(visit(aggregate.condition, exitAddress, g3),
                                     "LVM_Jmpez"), endOfLoop)
              ELSE g3
        g5 == IF aggregate.function # "COUNT"
              THEN visit(aggregate.expression, exitAddress, g4)
              ELSE g4
        g6 == emitFold(g5, aggregate.function)
        g7 == setAddress(g6, endOfLoop, size(g6))
        g8 == emitLoopTail(g7, counterLabel, address_L0)
        g9 == IF isCountShortcut(aggregate) THEN gs ELSE g8
        g10 == setAddress(g9, L1, size(g9))
        g11 == emit(emitOp(g10, "LVM_Aggregate_Return"), aggregate.tupleId, "arg")
        g12 == emit(emit(emitOp(g11, "LVM_TupleElement"), aggregate.tupleId, "arg"),
                    0, "arg")
        g13 == emit(emitOp(g12, "LVM_Number"),
                    IF aggregate.function = "MIN" THEN MAX_RAM_DOMAIN
                    ELSE MIN_RAM_DOMAIN, "arg")
        g14 == emitLookup(emitOp(emitOp(g13, "LVM_OP_EQ"), "LVM_Jmpnz"), L2)
        g15 == IF aggregate.function \in {"MIN", "MAX"} THEN g14 ELSE g11
        g16 == visitTupleOperation(aggregate, exitAddress, g15)
    IN  <<g1, g2, g3, g4, g5, g6, g7, g8, g9, g10, g11, g15, g16,
          setAddress(g16, L2, size(g16))>>[14]

visitAggregate(aggregate, exitAddress, g) ==
    LET counterLabel == g.iteratorIndex
        L1 == g.currentAddressLabel
        L2 == g.currentAddressLabel + 1
        g1 == getNewAddressLabel(getNewAddressLabel(
                    getNewIterator(emitOp(g, "LVM_Aggregate"))))
        g2 == emitInitFullIndex(g1, counterLabel, aggregate.relation)
    IN  <<g1, g2, aggregateRest(aggregate, counterLabel, L1, L2,
                                exitAddress, g2)>>[3]

visitIndexAggregate(aggregate, exitAddress, g) ==
    LET counterLabel == g.iteratorIndex
        L1 == g.currentAddressLabel
        L2 == g.currentAddressLabel + 1
        g1 == getNewAddressLabel(getNewAddressLabel(
                    getNewIterator(emitOp(g, "LVM_IndexAggregate"))))
        g2 == emitInitIndex(aggregate, counterLabel, exitAddress, g1)
    IN  <<g1, g2, aggregateRest(aggregate, counterLabel, L1, L2,
                                exitAddress, g2)>>[3]

visitBreak(breakOp, exitAddress, g) ==
    LET g1 == visit(breakOp.condition, exitAddress, g)
        g2 == emit(emitOp(g1, "LVM_Jmpnz"), exitAddress, "target")
    IN  <<g1, g2, visit(breakOp.operation, exitAddress, g2)>>[3]

\* a faulty visitFilter: the exit address not handed on
visitFilter_dropsExit(filter, exitAddress, g) ==
    LET g1 == emitSymbol(emitOp(g, "LVM_Filter"), filter.profileText)
        L0 == g1.currentAddressLabel
        g2 == visit(filter.condition, exitAddress, getNewAddressLabel(g1))
        g3 == emitLookup(emitOp(g2, "LVM_Jmpez"), L0)
        g4 == visit(filter.operation, 0, g3)
    IN  <<g1, g2, g3, g4, setAddress(g4, L0, size(g4))>>[5]

visitFilter(filter, exitAddress, g) ==
    LET g1 == emitSymbol(emitOp(g, "LVM_Filter"), filter.profileText)
        L0 == g1.currentAddressLabel
        g2 == visit(filter.condition, exitAddress, getNewAddressLabel(g1))
        g3 == emitLookup(emitOp(g2, "LVM_Jmpez"), L0)
        g4 == visit(filter.operation, exitAddress, g3)
    IN  <<g1, g2, g3, g4, setAddress(g4, L0, size(g4))>>[5]

visitProject_inOrder(project, exitAddress, g) ==
    LET arity == project.relation.arity
        g1 == visitInOrder(project.values, exitAddress, g)
    IN  <<g1, emitRelation(emit(emitOp(g1, "LVM_Project"), arity, "arg"),
                           project.relation)>>[2]

visitProject(project, exitAddress, g) ==
    LET arity == project.relation.arity
        g1 == visitInOrder(Reverse(project.values), exitAddress, g)
    IN  <<g1, emitRelation(emit(emitOp(g1, "LVM_Project"), arity, "arg"),
                           project.relation)>>[2]

\* the type string of a subroutine return: '_' or 'V' per value, last first
RECURSIVE returnTypes(_, _)
returnTypes(expressions, i) ==
    IF i <= 0 THEN ""
    ELSE (IF isRamUndefValue(expressions[i]) THEN "_" ELSE "V")
            \o returnTypes(expressions, i - 1)

visitSubroutineReturnValue(ret, exitAddress, g) ==
    LET expressions == ret.values
        g1 == visitDefinedFrom(expressions, Len(expressions), exitAddress, g)
        g2 == emit(emitOp(g1, "LVM_ReturnValue"), Len(expressions), "arg")
    IN  <<g1, g2, emitSymbol(g2, returnTypes(expressions, Len(expressions)))>>[3]

\* Visit RAM statements

visitSequence(seq, exitAddress, g) ==
    LET g1 == emitOp(g, "LVM_Sequence")
    IN  <<g1, visitInOrder(seq.statements, exitAddress, g1)>>[2]

\* the part of visitParallel after the early return: the fork of the children
RECURSIVE emitStartAddresses(_, _, _)
emitStartAddresses(g, first, n) ==
    IF n = 0 THEN g
    ELSE emitStartAddresses(emitLookup(getNewAddressLabel(g), first), first + 1, n - 1)

RECURSIVE visitBranches(_, _, _, _)
visitBranches(stmts, start, exitAddress, g) ==
    IF stmts = <<>> THEN g
    ELSE LET g1 == setAddress(g, start, size(g))
             g2 == visit(Head(stmts), exitAddress, g1)
             g3 == emitOp(emitOp(g2, "LVM_Stop_Parallel"), "LVM_NOP")
         IN  <<g1, g2, g3,
               visitBranches(Tail(stmts), start + 1, exitAddress, g3)>>[4]

visitParallelFork(parallel, exitAddress, g) ==
    LET stmts == parallel.statements
        g1 == emit(emitOp(g, "LVM_Parallel"), Len(stmts), "arg")
        endAddress == g1.currentAddressLabel
        g2 == emitLookup(getNewAddressLabel(g1), endAddress)
        g3 == emitStartAddresses(g2, endAddress + 1, Len(stmts))
        g4 == visitBranches(stmts, endAddress + 1, exitAddress, g3)
    IN  <<g1, g2, g3, g4, setAddress(g4, endAddress, size(g4))>>[5]

\* a faulty visitParallel: the fork taken
visitParallel_forks(parallel, exitAddress, g) ==
    visitParallelFork(parallel, exitAddress, g)

visitParallel(parallel, exitAddress, g) ==
    IF Len(parallel.statements) = 1 \/ TRUE
    THEN visitInOrder(parallel.statements, exitAddress, g)
    ELSE visitParallelFork(parallel, exitAddress, g)

visitLoop(loop, exitAddress, g) ==
    LET address_L0 == size(g)
        g1 == emitOp(g, "LVM_Loop")
        L1 == g1.currentAddressLabel
        g2 == getNewAddressLabel(g1)
        address_L1 == lookupAddress(g2, L1)
        g3 == visit(loop.body, address_L1, g2)
        g4 == emitOp(g3, "LVM_IncIterationNumber")
        g5 == emit(emitOp(g4, "LVM_Goto"), address_L0, "target")
        g6 == emitOp(g5, "LVM_ResetIterationNumber")
    IN  <<g1, g2, g3, g4, g5, g6, setAddress(g6, L1, size(g6))>>[7]

visitExit(exit, exitAddress, g) ==
    LET g1 == visit(exit.condition, exitAddress, g)
    IN  <<g1, emit(emitOp(g1, "LVM_Jmpnz"), exitAddress, "target")>>[2]

visitLogRelationTimer(timer, exitAddress, g) ==
    LET g1 == emitOp(g, "LVM_LogRelationTimer")
        timerIdx == g1.timerIndex
        g2 == emitSymbol(getNewTimer(g1), timer.message)
        g3 == emitRelation(emit(g2, timerIdx, "timer"), timer.relation)
        g4 == visit(timer.statement, exitAddress, g3)
    IN  <<g1, g2, g3, g4,
          emit(emitOp(g4, "LVM_StopLogTimer"), timerIdx, "timer")>>[5]

visitLogTimer(timer, exitAddress, g) ==
    LET g1 == emitOp(g, "LVM_LogTimer")
        timerIdx == g1.timerIndex
        g2 == emitSymbol(getNewTimer(g1), timer.message)
        g3 == emit(g2, timerIdx, "timer")
        g4 == visit(timer.statement, exitAddress, g3)
    IN  <<g1, g2, g3, g4,
          emit(emitOp(g4, "LVM_StopLogTimer"), timerIdx, "timer")>>[5]

visitDebugInfo(dbg, exitAddress, g) ==
    LET g1 == emitSymbol(emitOp(g, "LVM_DebugInfo"), dbg.message)
    IN  <<g1, visit(dbg.statement, exitAddress, g1)>>[2]

visitStratum(stratum, exitAddress, g) ==
    LET g1 == emitOp(g, "LVM_Stratum")
    IN  <<g1, visit(stratum.body, exitAddress, g1)>>[2]

visitCreate(create, exitAddress, g) ==
    emitRelation(emitOp(g, "LVM_Create"), create.relation)

visitClear(clear, exitAddress, g) ==
    emitRelation(emitOp(g, "LVM_Clear"), clear.relation)

visitDrop(drop, exitAddress, g) ==
    emitRelation(emitOp(g, "LVM_Drop"), drop.relation)

visitLogSize(logSize, exitAddress, g) ==
    emitSymbol(emitRelation(emitOp(g, "LVM_LogSize"), logSize.relation),
               logSize.message)

\* code->getIODirectives().push_back(d); code->push_back(getIODirectivesSize() - 1)
emitIODirectives(g, d) ==
    LET g1 == [g EXCEPT !.ioDirectives = Append(@, d)]
    IN  emit(g1, Len(g1.ioDirectives) - 1, "io")

visitLoad(load, exitAddress, g) ==
    emitIODirectives(emitRelation(emitOp(g, "LVM_Load"), load.relation),
                     load.ioDirectives)

visitStore(store, exitAddress, g) ==
    emitIODirectives(emitRelation(emitOp(g, "LVM_Store"), store.relation),
                     store.ioDirectives)

visitFact(fact, exitAddress, g) ==
    LET arity == fact.relation.arity
        g1 == visitInOrder(Reverse(SubSeq(fact.values, 1, arity)), exitAddress, g)
    IN  <<g1, emit(emitRelation(emitOp(g1, "LVM_Fact"), fact.relation),
                   arity, "arg")>>[2]

visitQuery(insert, exitAddress, g) ==
    LET g1 == emitOp(g, "LVM_Query")
    IN  <<g1, visit(insert.operation, exitAddress, g1)>>[2]

visitMerge(merge, exitAddress, g) ==
    emitRelation(emitRelation(emitOp(g, "LVM_Merge"), merge.source), merge.target)

visitSwap(swap, exitAddress, g) ==
    emitRelation(emitRelation(emitOp(g, "LVM_Swap"), swap.first), swap.second)

\* the dispatch of RamVisitor on the class of the node; visitUndefValue and
\* visitNode assert(false) and emit nothing
visit(node, exitAddress, g) ==
    CASE node.k = "Number" -> visitNumber(node, exitAddress, g)
      [] node.k = "TupleElement" -> visitTupleElement(node, exitAddress, g)
      [] node.k = "AutoIncrement" -> visitAutoIncrement(node, exitAddress, g)
      [] node.k = "IntrinsicOperator" -> visitIntrinsicOperator(node, exitAddress, g)
      [] node.k = "UserDefinedOperator" -> visitUserDefinedOperator(node, exitAddress, g)
      [] node.k = "PackRecord" -> visitPackRecord(node, exitAddress, g)
      [] node.k = "SubroutineArgument" -> visitSubroutineArgument(node, exitAddress, g)
      [] node.k = "True" -> visitTrue(node, exitAddress, g)
      [] node.k = "False" -> visitFalse(node, exitAddress, g)
      [] node.k = "Conjunction" -> visitConjunction(node, exitAddress, g)
      [] node.k = "Negation" -> visitNegation(node, exitAddress, g)
      [] node.k = "EmptinessCheck" -> visitEmptinessCheck(node, exitAddress, g)
      [] node.k = "ExistenceCheck" -> visitExistenceCheck(node, exitAddress, g)
      [] node.k = "ProvenanceExistenceCheck" ->
            visitProvenanceExistenceCheck(node, exitAddress, g)
      [] node.k = "Constraint" -> visitConstraint(node, exitAddress, g)
      [] node.k = "Scan" -> visitScan(node, exitAddress, g)
      [] node.k = "Choice" -> visitChoice(node, exitAddress, g)
      [] node.k = "IndexScan" -> visitIndexScan(node, exitAddress, g)
      [] node.k = "IndexChoice" -> visitIndexChoice(node, exitAddress, g)
      [] node.k = "UnpackRecord" -> visitUnpackRecord(node, exitAddress, g)
      [] node.k = "Aggregate" -> visitAggregate(node, exitAddress, g)
      [] node.k = "IndexAggregate" -> visitIndexAggregate(node, exitAddress, g)
      [] node.k = "Break" -> visitBreak(node, exitAddress, g)
      [] node.k = "Filter" -> visitFilter(node, exitAddress, g)
      [] node.k = "Project" -> visitProject(node, exitAddress, g)
      [] node.k = "SubroutineReturnValue" ->
            visitSubroutineReturnValue(node, exitAddress, g)
      [] node.k = "Sequence" -> visitSequence(node, exitAddress, g)
      [] node.k = "Parallel" -> visitParallel(node, exitAddress, g)
      [] node.k = "Loop" -> visitLoop(node, exitAddress, g)
      [] node.k = "Exit" -> visitExit(node, exitAddress, g)
      [] node.k = "LogRelationTimer" -> visitLogRelationTimer(node, exitAddress, g)
      [] node.k = "LogTimer" -> visitLogTimer(node, exitAddress, g)
      [] node.k = "DebugInfo" -> visitDebugInfo(node, exitAddress, g)
      [] node.k = "Stratum" -> visitStratum(node, exitAddress, g)
      [] node.k = "Create" -> visitCreate(node, exitAddress, g)
      [] node.k = "Clear" -> visitClear(node, exitAddress, g)
      [] node.k = "Drop" -> visitDrop(node, exitAddress, g)
      [] node.k = "LogSize" -> visitLogSize(node, exitAddress, g)
      [] node.k = "Load" -> visitLoad(node, exitAddress, g)
      [] node.k = "Store" -> visitStore(node, exitAddress, g)
      [] node.k = "Fact" -> visitFact(node, exitAddress, g)
      [] node.k = "Query" -> visitQuery(node, exitAddress, g)
      [] node.k = "Merge" -> visitMerge(node, exitAddress, g)
      [] node.k = "Swap" -> visitSwap(node, exitAddress, g)
      [] OTHER -> g

(***************************************************************************)
(* RAM nodes: the inputs of the generator.                                  *)
(***************************************************************************)
Relation(name, arity, representation) ==
    [name |-> name, arity |-> arity, representation |-> representation]

UndefValue == [k |-> "UndefValue"]

Number(c) == [k |-> "Number", constant |-> c]

TupleElement(t, e) == [k |-> "TupleElement", tupleId |-> t, element |-> e]

Intrinsic(operator, args) ==
    [k |-> "IntrinsicOperator", operator |-> operator, args |-> args]

UserDefined(name, type, args) ==
    [k |-> "UserDefinedOperator", name |-> name, type |-> type, args |-> args]

PackRecord(args) == [k |-> "PackRecord", args |-> args]

True == [k |-> "True"]

False == [k |-> "False"]

Conjunction(l, r) == [k |-> "Conjunction", lhs |-> l, rhs |-> r]

Negation(c) == [k |-> "Negation", operand |-> c]

EmptinessCheck(rel) == [k |-> "EmptinessCheck", relation |-> rel]

ExistenceCheck(rel, values, indexPos) ==
    [k |-> "ExistenceCheck", relation |-> rel, values |-> values,
     indexPos |-> indexPos]

ProvenanceExistenceCheck(rel, values, indexPos) ==
    [k |-> "ProvenanceExistenceCheck", relation |-> rel, values |-> values,
     indexPos |-> indexPos]

Constraint(operator, l, r) ==
    [k |-> "Constraint", operator |-> operator, lhs |-> l, rhs |-> r]

Scan(rel, t, text, op) ==
    [k |-> "Scan", relation |-> rel, tupleId |-> t, profileText |-> text,
     operation |-> op]

Choice(rel, t, cond, op) ==
    [k |-> "Choice", relation |-> rel, tupleId |-> t, profileText |-> "",
     condition |-> cond, operation |-> op]

IndexScan(rel, t, pattern, indexPos, op) ==
    [k |-> "IndexScan", relation |-> rel, tupleId |-> t, profileText |-> "",
     rangePattern |-> pattern, indexPos |-> indexPos, operation |-> op]

IndexChoice(rel, t, pattern, indexPos, cond, op) ==
    [k |-> "IndexChoice", relation |-> rel, tupleId |-> t, profileText |-> "",
     rangePattern |-> pattern, indexPos |-> indexPos, condition |-> cond,
     operation |-> op]

UnpackRecord(expr, arity, t, op) ==
    [k |-> "UnpackRecord", expression |-> expr, arity |-> arity, tupleId |-> t,
     profileText |-> "", operation |-> op]

Aggregate(function, rel, t, cond, expr, op) ==
    [k |-> "Aggregate", function |-> function, relation |-> rel, tupleId |-> t,
     profileText |-> "", condition |-> cond, expression |-> expr,
     operation |-> op]

IndexAggregate(function, rel, t, pattern, indexPos, cond, expr, op) ==
    [k |-> "IndexAggregate", function |-> function, relation |-> rel,
     tupleId |-> t, profileText |-> "", rangePattern |-> pattern,
     indexPos |-> indexPos, condition |-> cond, expression |-> expr,
     operation |-> op]

Break(cond, op) == [k |-> "Break", condition |-> cond, operation |-> op]

Filter(cond, text, op) ==
    [k |-> "Filter", condition |-> cond, profileText |-> text, operation |-> op]

Project(rel, values) == [k |-> "Project", relation |-> rel, values |-> values]

SubroutineReturnValue(values) == [k |-> "SubroutineReturnValue", values |-> values]

Sequence(stmts) == [k |-> "Sequence", statements |-> stmts]

Parallel(stmts) == [k |-> "Parallel", statements |-> stmts]

Loop(body) == [k |-> "Loop", body |-> body]

Exit(cond) == [k |-> "Exit", condition |-> cond]

LogRelationTimer(message, rel, stmt) ==
    [k |-> "LogRelationTimer", message |-> message, relation |-> rel,
     statement |-> stmt]

LogTimer(message, stmt) ==
    [k |-> "LogTimer", message |-> message, statement |-> stmt]

DebugInfo(message, stmt) ==
    [k |-> "DebugInfo", message |-> message, statement |-> stmt]

Stratum(body) == [k |-> "Stratum", body |-> body]

RelStmt(kind, rel) == [k |-> kind, relation |-> rel]

LogSize(rel, message) == [k |-> "LogSize", relation |-> rel, message |-> message]

Load(rel, d) == [k |-> "Load", relation |-> rel, ioDirectives |-> d]

Store(rel, d) == [k |-> "Store", relation |-> rel, ioDirectives |-> d]

Fact(rel, values) == [k |-> "Fact", relation |-> rel, values |-> values]

Query(op) == [k |-> "Query", operation |-> op]

Merge(source, target) == [k |-> "Merge", source |-> source, target |-> target]

Swap(first, second) == [k |-> "Swap", first |-> first, second |-> second]

(***************************************************************************)
(* The programs the generator is run on.                                    *)
(***************************************************************************)
\* the longest list of children of a Sequence or Parallel
MaxStatements == 2

RelA == Relation("A", 2, "BTREE")

RelB == Relation("B", 1, "BRIE")

\* tUnit.getProgram()->getAllRelations(): a map, iterated in order of name
AllRelations == <<RelA, RelB>>

Conditions ==
    {True,
     Constraint("EQ", TupleElement(0, 0), Number(LVM_STOP)),
     Negation(ExistenceCheck(RelA, <<TupleElement(0, 0), UndefValue>>, 1))}

LeafOperations ==
    {Project(RelA, <<TupleElement(0, 0), Number(1)>>),
     SubroutineReturnValue(<<UndefValue, TupleElement(0, 0)>>)}

\* every operation that nests an operation of S
Nesting(S) ==
    {Scan(RelA, 0, "scan", op) : op \in S}
    \cup {Choice(RelA, 0, c, op) : c \in Conditions, op \in S}
    \cup {IndexScan(RelA, 0, p, 1, op) :
            p \in {<<UndefValue, UndefValue>>, <<Number(1), UndefValue>>}, op \in S}
    \cup {IndexChoice(RelA, 0, <<UndefValue, Number(1)>>, 1, c, op) :
            c \in Conditions \ {True}, op \in S}
    \cup {UnpackRecord(TupleElement(0, 0), 2, 1, op) : op \in S}
    \cup {Aggregate(f, RelB, 1, c, TupleElement(1, 0), op) :
            f \in {"MIN", "MAX", "COUNT", "SUM"},
            c \in {True, Constraint("EQ", TupleElement(0, 0), Number(LVM_STOP))},
            op \in S}
    \cup {IndexAggregate(f, RelA, 1, <<Number(1), UndefValue>>, 0, True,
                         TupleElement(1, 0), op) :
            f \in {"MIN", "COUNT"}, op \in S}
    \cup {Filter(c, "", op) : c \in Conditions, op \in S}
    \cup {Break(c, op) : c \in Conditions \ {True}, op \in S}

\* the operations that nest an operation of S inside one more operation
NestingAgain(S) ==
    {Scan(RelB, 1, "", op) : op \in S}
    \cup {Filter(False, "filter", op) : op \in S}
    \cup {Break(True, op) : op \in S}

Operations ==
    LeafOperations \cup Nesting(LeafOperations)
        \cup NestingAgain(Nesting(LeafOperations))

LeafStatements ==
    {RelStmt("Create", RelA), RelStmt("Clear", RelB), RelStmt("Drop", RelA),
     LogSize(RelB, "size"), Load(RelA, "load A"), Store(RelB, "store B"),
     Fact(RelB, <<Number(LVM_STOP)>>), Merge(RelA, RelB), Swap(RelB, RelA),
     Query(Project(RelA, <<TupleElement(0, 0), Number(1)>>))}

ExitStatements == {Exit(c) : c \in Conditions}

SeqsUpTo(S, n) == UNION {[1..m -> S] : m \in 0..n}

\* the bodies of loops: an exit, alone or under a timer
ExitBodies == ExitStatements \cup {LogTimer("t", x) : x \in ExitStatements}

\* the bodies of loops: an exit, alone or after a scan with a break
LoopBodies ==
    ExitBodies
    \cup {Sequence(<<Query(Scan(RelA, 0, "",
                        Break(c, Project(RelB, <<TupleElement(0, 0)>>)))), x>>) :
            c \in {True, Constraint("NE", TupleElement(0, 1), Number(0))},
            x \in ExitStatements}

Compound(S) ==
    {Loop(b) : b \in LoopBodies}
    \cup {LogTimer("timer", st) : st \in S}
    \cup {LogRelationTimer("rtimer", RelA, st) : st \in S}
    \cup {DebugInfo("dbg", st) : st \in S}
    \cup {Stratum(st) : st \in S}

Programs ==
    {Query(op) : op \in Operations}
    \cup LeafStatements \cup ExitStatements
    \cup {Sequence(ss) : ss \in SeqsUpTo(LeafStatements \ {RelStmt("Drop", RelA),
                LogSize(RelB, "size"), Merge(RelA, RelB)}, MaxStatements)}
    \cup {Parallel(ss) :
            ss \in SeqsUpTo({Load(RelA, "load A"), Store(RelB, "store B"),
                             Query(Scan(RelA, 0, "", Project(RelB, <<Number(0)>>))),
                             LogTimer("p", RelStmt("Clear", RelB))}, MaxStatements)}
    \cup Compound(LeafStatements)
    \cup Compound(Compound({Load(RelA, "load A"),
                            Query(Scan(RelA, 0, "", Project(RelB, <<Number(0)>>)))}))
    \cup {Sequence(<<l, Query(Aggregate("MIN", RelB, 1, True, TupleElement(1, 0),
                                Project(RelB, <<TupleElement(1, 0)>>)))>>) :
            l \in {Loop(b) : b \in ExitBodies}}

(***************************************************************************)
(* The state of the generator as one record, and back.                      *)
(***************************************************************************)
Generator ==
    [code |-> code, origin |-> origin, ioDirectives |-> ioDirectives,
     currentAddressLabel |-> currentAddressLabel, addressMap |-> addressMap,
     iteratorIndex |-> iteratorIndex, timerIndex |-> timerIndex,
     relNameToIndex |-> relNameToIndex, relationMap |-> relationMap,
     symbolTable |-> symbolTable, setLog |-> setLog,
     ramDomainSize |-> ramDomainSize, shiftUB |-> shiftUB]

Becomes(g) ==
    /\ code' = g.code
    /\ origin' = g.origin
    /\ ioDirectives' = g.ioDirectives
    /\ currentAddressLabel' = g.currentAddressLabel
    /\ addressMap' = g.addressMap
    /\ iteratorIndex' = g.iteratorIndex
    /\ timerIndex' = g.timerIndex
    /\ relNameToIndex' = g.relNameToIndex
    /\ relationMap' = g.relationMap
    /\ symbolTable' = g.symbolTable
    /\ setLog' = g.setLog

\* the members of a generator at its construction, before the walks
NewGenerator ==
    /\ code = <<>>
    /\ origin = <<>>
    /\ ioDirectives = <<>>
    /\ currentAddressLabel = 0
    /\ addressMap = <<>>
    /\ iteratorIndex = 0
    /\ timerIndex = 0
    /\ setLog = <<>>
    /\ firstWalk = [code |-> <<>>]

\* RelationEncoder(isa, tUnit): encodeRelation of every relation of the program
RECURSIVE encodeAll(_, _)
encodeAll(e, rels) ==
    IF rels = <<>> THEN e
    ELSE encodeAll(encodeRelation(e, Head(rels)), Tail(rels))

NewEncoder == [relNameToIndex |-> <<>>, relationMap |-> <<>>]

\* the history of a call of encodeRelation: the relation passed, the id
\* returned, the encoder as the call found it, and the name and the id of
\* the call before it
noCall == [name |-> "", arity |-> 0, representation |-> "", id |-> -1,
           sizeBefore |-> 0, mapBefore |-> <<>>, namesBefore |-> <<>>,
           prevName |-> "", prevId |-> -1]

\* no interpreter runs while the stream is generated
noMachine == [ip |-> -1]

\* no adornment runs beside the generator
noAdornment == [at |-> "none"]

(***************************************************************************)
(* LVMGenerator(symbolTable, entry, relationEncoder): the four statements   *)
(* of the constructor, over an encoder constructed for the program.         *)
(***************************************************************************)
Init ==
    /\ pc = "constructor"
    /\ entry \in Programs
    /\ ramDomainSize = 32
    /\ shiftUB = "wrap"
    /\ relNameToIndex = encodeAll(NewEncoder, AllRelations).relNameToIndex
    /\ relationMap = encodeAll(NewEncoder, AllRelations).relationMap
    /\ symbolTable = <<>>
    /\ NewGenerator
    /\ lastCall = noCall
    /\ machine = noMachine
    /\ adornment = noAdornment

\* (*this)(entry, 0);
FirstWalk ==
    /\ pc = "constructor"
    /\ Becomes(visit(entry, 0, Generator))
    /\ pc' = "walked"
    /\ UNCHANGED <<entry, ramDomainSize, shiftUB, firstWalk, lastCall, machine,
                   adornment>>

\* a faulty cleanUp: the label table cleared with the rest
cleanUp_clearsLabels(g) ==
    [g EXCEPT !.code = <<>>, !.origin = <<>>, !.ioDirectives = <<>>,
              !.currentAddressLabel = 0, !.iteratorIndex = 0, !.timerIndex = 0,
              !.addressMap = <<>>, !.setLog = <<>>]

\* a faulty cleanUp: the iterator counter not reset
cleanUp_keepsIterators(g) ==
    [g EXCEPT !.code = <<>>, !.origin = <<>>, !.ioDirectives = <<>>,
              !.currentAddressLabel = 0, !.timerIndex = 0, !.setLog = <<>>]

\* a faulty cleanUp: the records of the first walk kept
cleanUp_keepsRecords(g) ==
    [g EXCEPT !.code = <<>>, !.origin = <<>>,
              !.currentAddressLabel = 0, !.iteratorIndex = 0, !.timerIndex = 0,
              !.setLog = <<>>]

\* a faulty cleanUp: the label counter not reset
cleanUp_keepsLabelCounter(g) ==
    [g EXCEPT !.code = <<>>, !.origin = <<>>, !.ioDirectives = <<>>,
              !.iteratorIndex = 0, !.timerIndex = 0, !.setLog = <<>>]

\* cleanUp()
cleanUp(g) ==
    [g EXCEPT !.code = <<>>, !.origin = <<>>, !.ioDirectives = <<>>,
              !.currentAddressLabel = 0, !.iteratorIndex = 0, !.timerIndex = 0,
              !.setLog = <<>>]

CleanUp ==
    /\ pc = "walked"
    /\ firstWalk' = Generator
    /\ Becomes(cleanUp(Generator))
    /\ pc' = "cleaned"
    /\ UNCHANGED <<entry, ramDomainSize, shiftUB, lastCall, machine,
                   adornment>>

\* (*this)(entry, 0);
SecondWalk ==
    /\ pc = "cleaned"
    /\ Becomes(visit(entry, 0, Generator))
    /\ pc' = "walked again"
    /\ UNCHANGED <<entry, ramDomainSize, shiftUB, firstWalk, lastCall, machine,
                   adornment>>

\* a faulty constructor: no stop word pushed
pushStop_skipped(g) == g

\* a faulty constructor: the stop word pushed twice
pushStop_twice(g) == emitOp(emitOp(g, "LVM_STOP"), "LVM_STOP")

\* code->push_back(LVM_STOP);
pushStop(g) == emitOp(g, "LVM_STOP")

PushStop ==
    /\ pc = "walked again"
    /\ Becomes(pushStop(Generator))
    /\ pc' = "done"
    /\ UNCHANGED <<entry, ramDomainSize, shiftUB, firstWalk, lastCall, machine,
                   adornment>>

Next == FirstWalk \/ CleanUp \/ SecondWalk \/ PushStop

Spec == Init /\ [][Next]_vars

(***************************************************************************)
(* The encoder on its own: constructed for the relations of a program, and  *)
(* then asked by its clients to encode relations, one call after another.   *)
(***************************************************************************)
RelationNames == {"A", "B", "C"}

\* the enumerators of RelationRepresentation
Representations == {"DEFAULT", "BTREE", "BRIE", "EQREL", "INFO"}

\* the representations createRelation has a case for
DeclaredRepresentations == {"DEFAULT", "BTREE", "BRIE", "EQREL"}

EncoderArities == {MAX_DIRECT_INDEX_SIZE, MAX_DIRECT_INDEX_SIZE + 1}

EncoderRelations ==
    {Relation(n, a, r) :
        n \in RelationNames, a \in EncoderArities, r \in Representations}

\* getAllRelations() of the programs the encoder is constructed for
DeclaredRelations == {<<>>, <<RelA>>, <<RelA, RelB>>}

Encoder == [relNameToIndex |-> relNameToIndex, relationMap |-> relationMap]

EncInit ==
    /\ pc = "encoder"
    /\ entry = [k |-> "none"]
    /\ ramDomainSize = 32
    /\ shiftUB = "wrap"
    /\ \E rels \in DeclaredRelations :
          /\ relNameToIndex = encodeAll(NewEncoder, rels).relNameToIndex
          /\ relationMap = encodeAll(NewEncoder, rels).relationMap
    /\ symbolTable = <<>>
    /\ NewGenerator
    /\ lastCall = noCall
    /\ machine = noMachine
    /\ adornment = noAdornment

\* relationEncoder.encodeRelation(rel)
EncodeRelation(rel) ==
    /\ pc = "encoder"
    /\ relNameToIndex' = encodeRelation(Encoder, rel).relNameToIndex
    /\ relationMap' = encodeRelation(Encoder, rel).relationMap
    /\ lastCall' = [name |-> rel.name, arity |-> rel.arity,
                    representation |-> rel.representation,
                    id |-> encodeRelationId(Encoder, rel),
                    sizeBefore |-> getSize(Encoder),
                    mapBefore |-> relationMap,
                    namesBefore |-> relNameToIndex,
                    prevName |-> lastCall.name, prevId |-> lastCall.id]
    /\ UNCHANGED <<pc, entry, ramDomainSize, shiftUB, symbolTable, code, origin,
                   ioDirectives, currentAddressLabel, addressMap, iteratorIndex,
                   timerIndex, setLog, firstWalk, machine, adornment>>

EncNext == \E rel \in EncoderRelations : EncodeRelation(rel)

EncSpec == EncInit /\ [][EncNext]_vars

(***************************************************************************)
(* The lowering of one existence check or one indexed scan, by a generator  *)
(* fresh from cleanUp(), in a build of either width of RamDomain.           *)
(***************************************************************************)
\* the arities of which every pattern of bound columns is lowered
SmallArity == 3

\* the most columns bound in a pattern of a wide relation
MaxBound == 2

WideArities == {32, 33, 64, 65}

\* the columns of a wide relation that patterns bind: those around the
\* boundaries of the mask words, and the last three
BoundaryColumns(arity) ==
    ({0, 30, 31, 32, 33, 62, 63, 64} \cup {arity - 3, arity - 2, arity - 1})
        \cap 0..(arity - 1)

\* the sets of bound columns (counted from 0) lowered for an arity
BoundColumns(arity) ==
    IF arity <= SmallArity THEN SUBSET (0..(arity - 1))
    ELSE {B \in SUBSET BoundaryColumns(arity) : Cardinality(B) <= MaxBound}

\* the values of a pattern: the bound column c holds the element c of tuple 0
Pattern(arity, B) ==
    [i \in 1..arity |-> IF (i - 1) \in B THEN TupleElement(0, i - 1)
                        ELSE UndefValue]

RelR(arity) == Relation("R", arity, "BTREE")

LowerArities == 0..SmallArity \cup WideArities

\* the nodes lowered for an arity: an existence check, a provenance
\* existence check (of a relation that has the two provenance columns) and
\* an indexed scan, for each pattern
LowerNodesOf(a) ==
    {ExistenceCheck(RelR(a), Pattern(a, B), 5) : B \in BoundColumns(a)}
    \cup (IF a >= 2
          THEN {ProvenanceExistenceCheck(RelR(a), Pattern(a, B), 5) :
                    B \in BoundColumns(a)}
          ELSE {})
    \cup {IndexScan(RelR(a), 0, Pattern(a, B), 5,
                    SubroutineReturnValue(<<Number(0)>>)) :
            B \in BoundColumns(a)}

LowerNodes == UNION {LowerNodesOf(a) : a \in LowerArities}

LowerInit ==
    /\ pc = "lower"
    /\ entry \in LowerNodes
    /\ ramDomainSize \in {32, 64}
    /\ shiftUB \in {"wrap", "zero"}
    /\ relNameToIndex = encodeAll(NewEncoder, <<entry.relation>>).relNameToIndex
    /\ relationMap = encodeAll(NewEncoder, <<entry.relation>>).relationMap
    /\ symbolTable = <<>>
    /\ NewGenerator
    /\ lastCall = noCall
    /\ machine = noMachine
    /\ adornment = noAdornment

\* (*this)(entry, 0) on the node alone
Lower ==
    /\ pc = "lower"
    /\ Becomes(visit(entry, 0, Generator))
    /\ pc' = "lowered"
    /\ UNCHANGED <<entry, ramDomainSize, shiftUB, firstWalk, lastCall, machine,
                   adornment>>

LowerNext == Lower

LowerSpec == LowerInit /\ [][LowerNext]_vars

(***************************************************************************)
(* Properties of the stream the constructor leaves.                         *)
(***************************************************************************)
\* the positions of the words tagged "op" that hold one of the opcodes
OpPositions(names) ==
    {i \in DOMAIN code : origin[i].t = "op" /\ code[i] \in {LVM(n) : n \in names}}

\* the positions of the branch-target operands: the operand of each LVM_Jmpez,
\* LVM_Jmpnz and LVM_Goto, and the skip address of each LVM_UnpackRecord (its
\* third operand, after the arity and the tuple id)
BranchTargets ==
    {i + 1 : i \in OpPositions({"LVM_Jmpez", "LVM_Jmpnz", "LVM_Goto"})}
        \cup {i + 3 : i \in OpPositions({"LVM_UnpackRecord"})}

\* C1: once the constructor has finished, every branch-target operand of the
\* stream is an offset inside the stream: at least 0 and less than the length.
C1_TargetsInBounds ==
    pc = "done" =>
        \A i \in BranchTargets : 0 <= code[i] /\ code[i] < Len(code)

\* a finished stream with a branch to its last word and a branch forward
C1_Witness ==
    /\ pc = "done"
    /\ \E i \in BranchTargets : code[i] = Len(code) - 1
    /\ \E i \in BranchTargets : code[i] > i /\ code[i] < Len(code) - 1

\* the offsets at which setAddress(L, code->size()) ran in the second walk
SetOffsets(L) == {setLog[k][2] : k \in {k \in DOMAIN setLog : setLog[k][1] = L}}

\* the positions of the operands emitted through lookupAddress
LookupPositions == {i \in DOMAIN code : origin[i].lab >= 0}

\* the offsets set for any label in the second walk
ForwardOffsets == {setLog[k][2] : k \in DOMAIN setLog}

\* C2: in the finished stream every operand emitted through lookupAddress(L)
\* is the offset at which setAddress(L, code->size()) ran in the second walk
\* (an exit address handed down to a nested node is the offset set for one of
\* the labels, or the 0 of the outermost call), and the offset the first walk
\* recorded for a label is the offset the second walk records for it.
C2_LabelsResolved ==
    pc = "done" =>
        /\ \A i \in LookupPositions : SetOffsets(origin[i].lab) = {code[i]}
        /\ \A i \in BranchTargets \ LookupPositions :
                code[i] < i \/ code[i] \in ForwardOffsets
        /\ addressMap = firstWalk.addressMap
        /\ \A L \in 0..(currentAddressLabel - 1) : SetOffsets(L) = {addressMap[L + 1]}

\* a finished stream with a reference to a label that is set further on, and
\* a reference to a label that was set before
C2_Witness ==
    /\ pc = "done"
    /\ \E i \in LookupPositions : code[i] > i
    /\ Cardinality({origin[i].lab : i \in LookupPositions}) >= 2

\* C3 as stated: the second walk emits the stream of the first, word for
\* word, the same I/O directives and the same numbers of iterators, timers
\* and labels.
C3_WalksIdentical ==
    pc = "walked again" =>
        /\ code = firstWalk.code
        /\ ioDirectives = firstWalk.ioDirectives
        /\ iteratorIndex = firstWalk.iteratorIndex
        /\ timerIndex = firstWalk.timerIndex
        /\ currentAddressLabel = firstWalk.currentAddressLabel

\* C3, amended: the second walk emits a stream of the length of the first,
\* equal to it in every word but the branch targets read through
\* lookupAddress before the label was set, where the first walk has 0 and the
\* second the offset of the label; the I/O directives and the numbers of
\* iterators, timers and labels are the same.
C3_WalksAgree ==
    pc = "walked again" =>
        /\ Len(code) = Len(firstWalk.code)
        /\ origin = firstWalk.origin
        /\ \A i \in DOMAIN code :
              \/ code[i] = firstWalk.code[i]
              \/ /\ i \in BranchTargets
                 /\ firstWalk.code[i] = 0
                 /\ code[i] \in ForwardOffsets
        /\ ioDirectives = firstWalk.ioDirectives
        /\ iteratorIndex = firstWalk.iteratorIndex
        /\ timerIndex = firstWalk.timerIndex
        /\ currentAddressLabel = firstWalk.currentAddressLabel

\* two walks that differ in a word, of a program with an iterator, a timer
\* and an I/O directive
C3_Witness ==
    /\ pc = "walked again"
    /\ \E i \in DOMAIN code : code[i] # firstWalk.code[i]
    /\ iteratorIndex > 0
    /\ currentAddressLabel > 1

\* C4 as stated: the last word of the finished stream is LVM_STOP and the
\* value of the stop word occurs once among all the words.
C4_StopOnceAmongWords ==
    pc = "done" =>
        /\ Len(code) >= 1
        /\ code[Len(code)] = LVM_STOP
        /\ Cardinality({i \in DOMAIN code : code[i] = LVM_STOP}) = 1

\* C4, amended: the last word of the finished stream is the opcode LVM_STOP,
\* and no other opcode of the stream is LVM_STOP; an operand may have the
\* value.
C4_StopOnceAmongOpcodes ==
    pc = "done" =>
        /\ Len(code) >= 1
        /\ code[Len(code)] = LVM_STOP
        /\ OpPositions({"LVM_STOP"}) = {Len(code)}

\* a finished stream with an operand of the value of the stop word
C4_Witness ==
    /\ pc = "done"
    /\ \E i \in DOMAIN code : i < Len(code) /\ code[i] = LVM_STOP

(***************************************************************************)
(* Properties of the encoder.                                               *)
(***************************************************************************)
\* a call of encodeRelation has been made
Called == lastCall.id >= 0

\* the last call created a descriptor
Inserted == Called /\ lastCall.name \notin DOMAIN lastCall.namesBefore

\* C5: a call of encodeRelation with the name of the call before it returns
\* the id that call returned and changes neither getSize() nor a descriptor.
C5_EncodeIdempotent ==
    (Called /\ lastCall.prevName = lastCall.name) =>
        /\ lastCall.id = lastCall.prevId
        /\ getSize(Encoder) = lastCall.sizeBefore
        /\ relationMap = lastCall.mapBefore
        /\ relNameToIndex = lastCall.namesBefore

\* a second call with the same name and another arity than the stored one
C5_Witness ==
    /\ Called
    /\ lastCall.prevName = lastCall.name
    /\ lastCall.arity > MAX_DIRECT_INDEX_SIZE
    /\ relationMap[lastCall.id + 1].class \in {"LVMRelation", "LVMEqRelation"}

\* C6: the ids are 0..getSize()-1, given in the order of insertion; two names
\* have the same id only if they are the same name; the name map and the
\* descriptor vector have the same size; the id of a name never changes; the
\* id of a call is that of its name and is less than getSize().
C6_IdsDense ==
    /\ {relNameToIndex[n] : n \in DOMAIN relNameToIndex}
            = 0..(getSize(Encoder) - 1)
    /\ Cardinality(DOMAIN relNameToIndex) = Len(relationMap)
    /\ \A m, n \in DOMAIN relNameToIndex :
            relNameToIndex[m] = relNameToIndex[n] => m = n
    /\ \A n \in DOMAIN lastCall.namesBefore :
            relNameToIndex[n] = lastCall.namesBefore[n]
    /\ Called =>
            /\ lastCall.id = relNameToIndex[lastCall.name]
            /\ 0 <= lastCall.id /\ lastCall.id < getSize(Encoder)
            /\ Inserted => lastCall.id = lastCall.sizeBefore
            /\ lastCall.prevId >= 0 =>
                    (lastCall.id = lastCall.prevId
                        <=> lastCall.name = lastCall.prevName)

\* three names interned in another order than that of the names
C6_Witness ==
    /\ Inserted
    /\ getSize(Encoder) = Cardinality(RelationNames)
    /\ lastCall.id = getSize(Encoder) - 1
    /\ relNameToIndex["C"] < relNameToIndex["A"]
    /\ lastCall.prevName # lastCall.name

\* the class and the index of the descriptor of a declared representation
DescriptorKind(representation) ==
    CASE representation = "DEFAULT" -> <<"LVMRelation", "default">>
      [] representation = "BTREE"   -> <<"LVMRelation", "default">>
      [] representation = "BRIE"    -> <<"LVMRelation", "createBrieIndex">>
      [] representation = "EQREL"   -> <<"LVMEqRelation", "default">>

\* C7: the descriptor a call creates is the indirect one if and only if the
\* arity is greater than 12, whatever the representation; for an arity of at
\* most 12 each of the representations default, ordered-tree, trie and
\* equivalence gives a descriptor of its own kind, never a null one.
C7_DescriptorKinds ==
    Inserted =>
        LET d == relationMap[getSize(Encoder)]
        IN  /\ d.class = "LVMIndirectRelation" <=> lastCall.arity > 12
            /\ (lastCall.arity <= 12
                    /\ lastCall.representation \in DeclaredRepresentations) =>
                  /\ d.class # "nullptr"
                  /\ <<d.class, d.index>> = DescriptorKind(lastCall.representation)
                  /\ d.arity = lastCall.arity

\* an equivalence relation of arity 12 has been interned
C7_Witness ==
    /\ Inserted
    /\ lastCall.arity = 12
    /\ lastCall.representation = "EQREL"
    /\ relationMap[getSize(Encoder)].class = "LVMEqRelation"

(***************************************************************************)
(* Properties of the lowering of existence checks and indexed operations.   *)
(***************************************************************************)
Lowered(kinds) == pc = "lowered" /\ entry.k \in kinds

\* the pattern of the node lowered, and the arity and the id of its relation
NodeValues == IF entry.k = "IndexScan" THEN entry.rangePattern ELSE entry.values

NodeArity == entry.relation.arity

NodeRelId == relNameToIndex[entry.relation.name]

\* the columns (counted from 0) the pattern binds, among the first n
DefinedBelow(n) ==
    {c \in 0..(n - 1) : ~isRamUndefValue(NodeValues[c + 1])}

\* the columns of S from the greatest down
Descending(S) ==
    [k \in 1..Cardinality(S) |->
        CHOOSE c \in S : Cardinality({d \in S : d > c}) = k - 1]

\* the words of the values of the columns S, from the greatest column down:
\* each is LVM_TupleElement, tuple 0, the column
ValueWords(S) ==
    [p \in 1..(3 * Cardinality(S)) |->
        CASE (p - 1) % 3 = 0 -> LVM("LVM_TupleElement")
          [] (p - 1) % 3 = 1 -> 0
          [] OTHER -> Descending(S)[((p - 1) \div 3) + 1]]

\* the words of the stream from position p on
WordsFrom(p) == SubSeq(code, p, Len(code))

\* the opcodes of the stream
Opcodes == {code[i] : i \in {i \in DOMAIN code : origin[i].t = "op"}}

\* C8: an existence check emits the values of its defined columns from the
\* last column down and then: if no column is defined (arity 0 included),
\* LVM_EmptinessCheck, the relation id, LVM_Negation; if every column is
\* defined (arity at least 1), LVM_ContainCheck, the relation id; otherwise
\* a partial existence-check opcode and the relation id.
C8_ExistenceLowering ==
    Lowered({"ExistenceCheck"}) =>
        LET D == DefinedBelow(NodeArity)
            rest == WordsFrom(3 * Cardinality(D) + 1)
        IN  /\ SubSeq(code, 1, 3 * Cardinality(D)) = ValueWords(D)
            /\ Cardinality(OpPositions({"LVM_TupleElement"})) = Cardinality(D)
            /\ IF D = {}
               THEN rest = <<LVM("LVM_EmptinessCheck"), NodeRelId,
                             LVM("LVM_Negation")>>
               ELSE IF D = 0..(NodeArity - 1)
               THEN rest = <<LVM("LVM_ContainCheck"), NodeRelId>>
               ELSE /\ Len(rest) >= 3
                    /\ Opcodes \ {LVM("LVM_TupleElement")} = {rest[1]}
                    /\ rest[1] \in {LVM("LVM_ExistenceCheck"),
                                    LVM("LVM_ExistenceCheckOneArg")}
                    /\ rest[2] = NodeRelId

\* an existence check of arity 3 that binds the columns 0 and 2
C8_Witness ==
    /\ Lowered({"ExistenceCheck"})
    /\ NodeArity = 3
    /\ DefinedBelow(NodeArity) = {0, 2}
    /\ LVM("LVM_ExistenceCheckOneArg") \in Opcodes

\* the positions of the type-mask words, and the word i of them (from 0)
MaskPositions == {i \in DOMAIN code : origin[i].t = "mask"}

FirstMask == CHOOSE i \in MaskPositions : \A j \in MaskPositions : i <= j

MaskWord(i) == code[FirstMask + i]

\* bit c % W of the mask word c / W: the bit of the column c
MaskBit(c) == bitOfWord(MaskWord(c \div ramDomainSize), c % ramDomainSize)

\* C9: a provenance existence check of arity n >= 2 skips the columns n-2 and
\* n-1 whatever they hold: the defined columns below n-2 are the values
\* emitted and the bits set in the type mask, the negated emptiness check is
\* emitted exactly when the columns 0..n-3 are all undefined, and
\* LVM_ContainCheck is never emitted.
C9_ProvenanceLowering ==
    Lowered({"ProvenanceExistenceCheck"}) =>
        LET D == DefinedBelow(NodeArity - 2)
            rest == WordsFrom(3 * Cardinality(D) + 1)
        IN  /\ SubSeq(code, 1, 3 * Cardinality(D)) = ValueWords(D)
            /\ Cardinality(OpPositions({"LVM_TupleElement"})) = Cardinality(D)
            /\ LVM("LVM_ContainCheck") \notin Opcodes
            /\ IF D = {}
               THEN rest = <<LVM("LVM_EmptinessCheck"), NodeRelId,
                             LVM("LVM_Negation")>>
               ELSE /\ LVM("LVM_EmptinessCheck") \notin Opcodes
                    /\ rest[1] \in {LVM("LVM_ExistenceCheck"),
                                    LVM("LVM_ExistenceCheckOneArg")}
                    /\ rest[2] = NodeRelId
                    /\ \A c \in 0..(NodeArity - 1) : MaskBit(c) <=> c \in D

\* the provenance check that is not lowered as C9 states: in a build of 64
\* bit words, a column from 31 on is bound
C9_FailingInput ==
    /\ Lowered({"ProvenanceExistenceCheck"})
    /\ ramDomainSize = 64
    /\ \E c \in DefinedBelow(NodeArity - 2) : c >= INT_BITS - 1

\* the lowering emits type masks: the check is neither the emptiness check
\* nor the full check, the range of the scan is not the full index
EmitsMasks ==
    /\ Lowered({"ExistenceCheck", "ProvenanceExistenceCheck", "IndexScan"})
    /\ LET D == DefinedBelow(IF entry.k = "ProvenanceExistenceCheck"
                             THEN NodeArity - 2 ELSE NodeArity)
       IN  /\ D # {}
           /\ entry.k = "ExistenceCheck" => D # 0..(NodeArity - 1)

\* the number of operands between the opcode and the masks: the relation id
\* and the index position, and the iterator before them for a range
MaskOperands == IF entry.k = "IndexScan" THEN 3 ELSE 2

\* C10: for every arity >= 1 and for W = RAM_DOMAIN_SIZE the lowering emits
\* ceil(arity / W) mask words after the relation id and the index position;
\* bit j of word i is set exactly when the column i * W + j is bound, the top
\* bit included, and every other bit is 0; the OneArg opcode is used exactly
\* when there is one mask word; arity 2 with the column 0 bound gives
\* LVM_ExistenceCheckOneArg, the relation id, the index position, 1.
C10_TypeMaskPacking ==
    EmitsMasks =>
        LET W == ramDomainSize
            n == Cardinality(MaskPositions)
            D == DefinedBelow(IF entry.k = "ProvenanceExistenceCheck"
                              THEN NodeArity - 2 ELSE NodeArity)
            op == code[FirstMask - MaskOperands - 1]
        IN  /\ n = (NodeArity + W - 1) \div W
            /\ MaskPositions = FirstMask..(FirstMask + n - 1)
            /\ code[FirstMask - 2] = NodeRelId
            /\ code[FirstMask - 1] = getIndexPos(entry)
            /\ \A c \in 0..(n * W - 1) : MaskBit(c) <=> c \in D
            /\ IF entry.k = "IndexScan"
               THEN op = IF n = 1 THEN LVM("LVM_ITER_InitRangeIndexOneArg")
                                  ELSE LVM("LVM_ITER_InitRangeIndex")
               ELSE op = IF n = 1 THEN LVM("LVM_ExistenceCheckOneArg")
                                  ELSE LVM("LVM_ExistenceCheck")
            /\ (entry.k = "ExistenceCheck" /\ NodeArity = 2 /\ D = {0}) =>
                  code = ValueWords(D) \o
                            <<LVM("LVM_ExistenceCheckOneArg"), NodeRelId,
                              getIndexPos(entry), 1>>

\* the lowering that does not pack as C10 states: in a build of 64 bit words,
\* column 31 of a relation of arity 33 is the one column bound
C10_FailingInput ==
    /\ Lowered({"ExistenceCheck"})
    /\ ramDomainSize = 64
    /\ NodeArity = 33
    /\ DefinedBelow(NodeArity) = {31}
    /\ MaskWord(0) = -(2^30) - 2^30

(***************************************************************************)
(* The constructor run on a program of one construct, whose children are    *)
(* the simplest of their kind, so that the words of the construct itself    *)
(* are told from those of its children.                                     *)
(***************************************************************************)
\* a nested operation and a condition that emit no jump
EmitRow(t) == Project(RelB, <<TupleElement(t, 0)>>)

RowCondition(t) == Constraint("NE", TupleElement(t, 1), Number(0))

RangePatterns ==
    {<<UndefValue, UndefValue>>, <<Number(1), UndefValue>>,
     <<TupleElement(0, 0), Number(1)>>}

AggregateFunctions == {"MIN", "MAX", "COUNT", "SUM"}

\* the operations that iterate a relation, each over children without a jump
LoopOperations ==
    {Scan(RelA, 0, text, EmitRow(0)) : text \in {"", "scan"}}
    \cup {IndexScan(RelA, 0, p, 1, EmitRow(0)) : p \in RangePatterns}
    \cup {Choice(RelA, 0, c, EmitRow(0)) : c \in {True, RowCondition(0)}}
    \cup {IndexChoice(RelA, 0, p, 1, c, EmitRow(0)) :
            p \in RangePatterns, c \in {True, RowCondition(0)}}
    \cup {Aggregate(f, RelA, 1, c, TupleElement(0, 0), EmitRow(1)) :
            f \in AggregateFunctions, c \in {True, RowCondition(0)}}
    \cup {IndexAggregate(f, RelA, 1, p, 1, c, TupleElement(0, 0), EmitRow(1)) :
            f \in AggregateFunctions, p \in RangePatterns,
            c \in {True, RowCondition(0)}}

\* the loops: over a body without a jump, and over bodies with an Exit
LoopStatements ==
    {Loop(RelStmt("Clear", RelB)), Loop(Exit(RowCondition(0))),
     Loop(Sequence(<<Exit(EmptinessCheck(RelA)), Merge(RelA, RelB)>>))}

SkeletonPrograms == {Query(op) : op \in LoopOperations} \cup LoopStatements

\* count aggregates with the trivially-true condition: alone, and below a
\* scan that holds iterator slot 0
CountPrograms ==
    {Query(Aggregate("COUNT", r, 1, True, TupleElement(1, 0), EmitRow(1))) :
        r \in {RelA, RelB}}
    \cup {Query(Scan(RelA, 0, "",
                     Aggregate("COUNT", RelB, 2, True, TupleElement(2, 0),
                               EmitRow(2))))}

\* a relation of arity 2 that is projected into
RelS == Relation("S", 2, "BTREE")

\* a scan of a relation of arity 2 whose rows are projected into S
ScanProjectPrograms ==
    {Query(Scan(r, 0, text,
                Project(RelS, <<TupleElement(0, 0), TupleElement(0, 1)>>))) :
        r \in {RelA, RelS}, text \in {"", "scan"}}

\* the most children of a Parallel
MaxChildren == 2

\* statements that allocate iterators, labels, timers, symbols and I/O
\* records, as children of a Parallel
ParallelChildren ==
    {Query(Scan(RelA, 0, "scan", EmitRow(0))),
     Loop(Sequence(<<Exit(EmptinessCheck(RelA)), RelStmt("Clear", RelA)>>)),
     LogTimer("t", RelStmt("Clear", RelB)),
     Load(RelA, "load A"),
     Parallel(<<Store(RelB, "store B")>>)}

ParallelPrograms == {Parallel(ss) : ss \in SeqsUpTo(ParallelChildren, MaxChildren)}

\* argument lists whose members differ
ArgumentLists ==
    {<<>>, <<Number(11)>>, <<Number(11), TupleElement(0, 1)>>,
     <<Number(11), Number(12), Number(13)>>}

\* expressions: every operator over leaves, and operators over operators
Expressions ==
    {Intrinsic(f, <<Number(11)>>) : f \in UnaryFunctorOps}
    \cup {Intrinsic(f, <<Number(11), Number(12)>>) : f \in BinaryFunctorOps}
    \cup {Intrinsic(f, as) : f \in {"MAX", "MIN", "CAT"},
                             as \in ArgumentLists \ {<<>>}}
    \cup {Intrinsic("SUBSTR", <<Number(11), Number(12), Number(13)>>)}
    \cup {UserDefined("f", "NNN", as) : as \in ArgumentLists}
    \cup {PackRecord(as) : as \in ArgumentLists}
    \cup {Intrinsic("CAT",
              <<Intrinsic("SUB", <<Number(11), Number(12)>>),
                UserDefined("g", "NS",
                    <<Number(13), PackRecord(<<Number(11), Number(12)>>)>>)>>),
          Intrinsic("MAX",
              <<Intrinsic("CAT", <<Number(11), Number(12)>>), Number(13),
                Intrinsic("NEG", <<TupleElement(0, 0)>>)>>),
          UserDefined("h", "SN",
              <<Intrinsic("MIN", <<Number(11), Number(12)>>),
                Intrinsic("SUBSTR", <<Number(11), Number(12),
                                      UserDefined("f", "N", <<Number(13)>>)>>)>>)}

\* an expression is lowered as the value a query projects
ExpressionPrograms == {Query(Project(RelB, <<e>>)) : e \in Expressions}

\* a condition made of conditions
BothChecks ==
    Conjunction(EmptinessCheck(RelA), Negation(EmptinessCheck(RelB)))

\* nodes that are not loop skeletons, over children that emit neither a
\* jump nor a slot nor a symbol: each case names a program, a node of it
\* and the number of words of the stream before the words of the node
OrderCases ==
    LET case(program, node, before) ==
            [program |-> program, node |-> node, before |-> before]
        filtered == Query(Filter(RowCondition(0), "", EmitRow(0)))
        checked == Query(Filter(BothChecks, "", EmitRow(0)))
        unpacked == Query(UnpackRecord(TupleElement(0, 0), 2, 1, EmitRow(1)))
    IN  {case(st, st, 0) :
            st \in {Sequence(<<RelStmt("Clear", RelB), Merge(RelA, RelB)>>),
                    Stratum(RelStmt("Clear", RelB)),
                    DebugInfo("dbg", RelStmt("Clear", RelB)),
                    LogTimer("t", RelStmt("Clear", RelB)),
                    LogRelationTimer("rt", RelA, RelStmt("Clear", RelB)),
                    Query(Project(RelB, <<Number(11)>>))}}
        \cup {case(filtered, filtered.operation, 1),
              case(filtered, filtered.operation.condition, 3),
              case(checked, checked.operation.condition, 3),
              case(checked, checked.operation.condition.rhs, 5),
              case(checked, checked.operation.operation, 11),
              case(unpacked, unpacked.operation, 1)}

OrderPrograms == {c.program : c \in OrderCases}

\* timers one in the other and one after the other
TimerPrograms ==
    LET inner == LogRelationTimer("b", RelA, RelStmt("Clear", RelB))
        scan == Query(Scan(RelA, 0, "", EmitRow(0)))
    IN  {LogTimer("a", inner),
         LogRelationTimer("a", RelB, LogTimer("a", scan)),
         Sequence(<<LogTimer("a", Sequence(<<inner, LogTimer("c", scan)>>)),
                    LogTimer("b", Merge(RelA, RelB))>>),
         Sequence(<<inner, inner, LogTimer("c", LogTimer("d", inner))>>),
         Loop(Sequence(<<LogTimer("a", Exit(EmptinessCheck(RelA))),
                         LogTimer("b", RelStmt("Clear", RelA))>>))}

\* the condition of every Exit and the condition of every Break below
ExitCondition == EmptinessCheck(RelA)

BreakCondition == RowCondition(0)

\* Exits and Breaks below loops and scans, with nodes that hand the exit
\* address on in between
ThreadPrograms ==
    LET break(op) == Break(BreakCondition, op)
        exit == Exit(ExitCondition)
    IN  {Query(Scan(RelA, 0, "",
            Filter(True, "", break(UnpackRecord(TupleElement(0, 0), 2, 1,
                                                 break(EmitRow(1))))))),
         Query(IndexScan(RelA, 0, <<Number(1), UndefValue>>, 1,
            break(Scan(RelB, 1, "", break(Filter(True, "f", break(EmitRow(1)))))))),
         Loop(Sequence(<<exit,
                         Query(Scan(RelA, 0, "", break(EmitRow(0)))),
                         LogTimer("t", exit),
                         Stratum(DebugInfo("d", LogRelationTimer("r", RelA, exit))),
                         Loop(Sequence(<<exit, Parallel(<<exit>>)>>)),
                         exit>>)),
         Sequence(<<Loop(exit), Loop(Query(Scan(RelA, 0, "", break(EmitRow(0)))))>>)}

\* the searches that iterate without installing an exit address, with a
\* Break in their nested operation
Forwarders ==
    LET body == Break(BreakCondition, EmitRow(1))
    IN  {Choice(RelA, 1, RowCondition(1), body),
         IndexChoice(RelA, 1, <<Number(1), UndefValue>>, 1, RowCondition(1), body),
         Aggregate("MIN", RelA, 1, RowCondition(1), TupleElement(1, 0), body),
         Aggregate("COUNT", RelA, 1, True, TupleElement(1, 0), body),
         IndexAggregate("SUM", RelA, 1, <<Number(1), UndefValue>>, 1, True,
                        TupleElement(1, 0), body)}

\* the forwarders below a scan, an indexed scan, a loop, and below none of
\* them; Exits outside every loop, before and after one
ForwardPrograms ==
    {Query(Scan(RelA, 0, "", f)) : f \in Forwarders}
        \cup {Query(IndexScan(RelA, 0, <<Number(1), UndefValue>>, 1, f)) :
                f \in Forwarders}
        \cup {Loop(Sequence(<<Query(f), Exit(ExitCondition)>>)) : f \in Forwarders}
        \cup {Query(f) : f \in Forwarders}
        \cup {Exit(ExitCondition),
              Sequence(<<Exit(ExitCondition), Loop(Exit(ExitCondition)),
                         LogTimer("t", Exit(ExitCondition))>>),
              Query(Choice(RelA, 0, RowCondition(0),
                        Choice(RelA, 1, RowCondition(1),
                               Break(BreakCondition, EmitRow(1)))))}

NodePrograms ==
    SkeletonPrograms \cup CountPrograms \cup ScanProjectPrograms
        \cup ParallelPrograms \cup ExpressionPrograms \cup OrderPrograms
        \cup TimerPrograms \cup ThreadPrograms \cup ForwardPrograms

NodeInit ==
    /\ pc = "constructor"
    /\ entry \in NodePrograms
    /\ ramDomainSize = 32
    /\ shiftUB = "wrap"
    /\ relNameToIndex = encodeAll(NewEncoder, AllRelations).relNameToIndex
    /\ relationMap = encodeAll(NewEncoder, AllRelations).relationMap
    /\ symbolTable = <<>>
    /\ NewGenerator
    /\ lastCall = noCall
    /\ machine = noMachine
    /\ adornment = noAdornment

NodeSpec == NodeInit /\ [][Next]_vars

\* the construct of the program: the operation of the query, or the loop
Construct == IF entry.k = "Query" THEN entry.operation ELSE entry

\* the positions of the jumps among the words of the construct itself: an
\* Exit in the body of a Loop emits LVM_Jmpnz, the Loop emits LVM_Goto
OwnJumps ==
    IF entry.k = "Loop" THEN OpPositions({"LVM_Goto"})
    ELSE OpPositions({"LVM_Jmpez", "LVM_Jmpnz", "LVM_Goto"})

\* the jumps whose target is not after the jump
BackwardJumps == {i \in OwnJumps : code[i + 1] < i}

\* some jump of the construct goes to the offset just after the INC/GOTO
\* pair that ends with the jump at position b
JumpsPast(b) == \E f \in OwnJumps \ BackwardJumps : code[f + 1] = b + 1

\* C11 as stated: the words of every loop-emitting construct hold exactly one
\* backward jump, and a forward jump to the offset just after the
\* construct's INC/GOTO pair.
C11_SkeletonLaw ==
    (pc = "done" /\ entry \in SkeletonPrograms) =>
        /\ Cardinality(BackwardJumps) = 1
        /\ \A b \in BackwardJumps : JumpsPast(b)

\* C11, amended: Scan, IndexScan, Choice, IndexChoice and the aggregates
\* that are not the count shortcut hold exactly one backward jump, the
\* LVM_Goto after LVM_ITER_Inc, and a forward jump to the offset just after
\* it; the count shortcut holds no jump; a Loop holds one backward jump, the
\* LVM_Goto after LVM_IncIterationNumber, and no forward jump: the exit
\* address of its body, the target of every Exit in it, is the offset after
\* the LVM_ResetIterationNumber that follows the LVM_Goto.
C11_SkeletonLawByConstruct ==
    (pc = "done" /\ entry \in SkeletonPrograms) =>
        IF Construct.k \in {"Aggregate", "IndexAggregate"}
                /\ isCountShortcut(Construct)
        THEN OwnJumps = {}
        ELSE /\ Cardinality(BackwardJumps) = 1
             /\ \A b \in BackwardJumps :
                  /\ code[b] = LVM("LVM_Goto")
                  /\ IF entry.k = "Loop"
                     THEN /\ code[b - 1] = LVM("LVM_IncIterationNumber")
                          /\ code[b + 1] = 0
                          /\ OwnJumps = {b}
                          /\ code[b + 2] = LVM("LVM_ResetIterationNumber")
                          /\ \A x \in OpPositions({"LVM_Jmpnz"}) :
                                code[x + 1] = b + 2
                     ELSE /\ code[b - 2] = LVM("LVM_ITER_Inc")
                          /\ JumpsPast(b)

\* an indexed choice with a condition, lowered: two forward jumps, one of
\* them past the nested operation
C11_Witness ==
    /\ pc = "done"
    /\ Construct.k = "IndexChoice"
    /\ Cardinality(OwnJumps \ BackwardJumps) = 2
    /\ \E f \in OwnJumps : code[f + 1] = Len(code) - 1

(***************************************************************************)
(* The interpreter of the stream: a stack machine with an operand stack, a  *)
(* context of tuples, a register per iterator slot and the relations. Each  *)
(* opcode reads its operands from the words after it. The interpreter is    *)
(* a separate component (LVM); its steps here follow the contract the       *)
(* generator emits the stream for.                                          *)
(***************************************************************************)
\* the most rows of the relation the programs iterate
MaxRows == 2

\* the rows the relation A (arity 2) may hold
Rows ==
    {<<1, 0>>, <<1, 1>>, <<2, 1>>, <<MAX_RAM_DOMAIN, 1>>, <<MIN_RAM_DOMAIN, 1>>}

\* the contents of A: up to MaxRows different rows, in iteration order
Datasets ==
    {d \in UNION {[1..n -> Rows] : n \in 0..MaxRows} :
        \A i, j \in DOMAIN d : i # j => d[i] # d[j]}

\* the most tuples of a context
MaxTuples == 2

\* the machine at the first word, over the relation A holding rows; slots
\* is the number of iterator registers of its frame
startMachine(rows, slots) ==
    [ip |-> 0, last |-> -1, stack |-> <<>>,
     tuples |-> [t \in 0..(MaxTuples - 1) |-> <<>>],
     iters |-> [i \in 0..(slots - 1) |-> [open |-> FALSE, rows |-> <<>>]],
     rels |-> <<rows, <<>>>>,
     input |-> rows, iteration |-> 0, ran |-> {}, trace |-> <<>>,
     fault |-> FALSE]

\* the word k places after the opcode the machine is at
operand(m, k) == code[m.ip + 1 + k]

\* the machine after an instruction of n words, this one executed
advance(m, n) ==
    [m EXCEPT !.ip = @ + n, !.last = m.ip, !.ran = @ \cup {m.ip},
              !.trace = Append(@, m.ip)]

\* the machine after a jump to the offset a
jump(m, a) ==
    [m EXCEPT !.ip = a, !.last = m.ip, !.ran = @ \cup {m.ip},
              !.trace = Append(@, m.ip)]

push(m, v) == [m EXCEPT !.stack = Append(@, v)]

\* the n values on top of the stack, the topmost last, and the stack below
top(m, n) == SubSeq(m.stack, Len(m.stack) - n + 1, Len(m.stack))

drop(m, n) == [m EXCEPT !.stack = SubSeq(@, 1, Len(@) - n)]

truth(b) == IF b THEN 1 ELSE 0

\* the least and the greatest of the values of a sequence
least(vs) == CHOOSE v \in {vs[i] : i \in DOMAIN vs} : \A i \in DOMAIN vs : v <= vs[i]

greatest(vs) == CHOOSE v \in {vs[i] : i \in DOMAIN vs} : \A i \in DOMAIN vs : v >= vs[i]

\* a relation with one more row (a relation is a set of rows)
insertRow(rel, row) ==
    IF \E i \in DOMAIN rel : rel[i] = row THEN rel ELSE Append(rel, row)

RECURSIVE insertRows(_, _)
insertRows(rel, rows) ==
    IF rows = <<>> THEN rel
    ELSE insertRows(insertRow(rel, Head(rows)), Tail(rows))

\* the rows of a range: those equal to the values popped in the columns of
\* the mask; the values were pushed from the last bound column down
rangeRows(rel, mask, values) ==
    LET bound == bitsOfInt(mask)
    IN  SelectSeq(rel, LAMBDA row :
            \A k \in 1..Cardinality(bound) :
                row[Descending(bound)[k] + 1] = values[k])

\* the opcode the machine is at
opcode(m) == LVM_Type[code[m.ip + 1] + 1]

\* the opcodes that only mark the construct they open, and do nothing
Markers ==
    {"LVM_Query", "LVM_Sequence", "LVM_Loop", "LVM_Scan", "LVM_IndexScan",
     "LVM_Choice", "LVM_IndexChoice", "LVM_Aggregate", "LVM_IndexAggregate",
     "LVM_Constraint", "LVM_NOP"}

\* the sum of two RamDomain values, wrapped to the 32 bits of the domain
wrap32(lhs, rhs) ==
    IF rhs > 0 /\ lhs > MAX_RAM_DOMAIN - rhs
    THEN ((lhs - MAX_RAM_DOMAIN) - 1) + ((rhs - MAX_RAM_DOMAIN) - 1)
    ELSE IF rhs < 0 /\ lhs < MIN_RAM_DOMAIN - rhs
    THEN ((lhs + MAX_RAM_DOMAIN) + 1) + ((rhs + MAX_RAM_DOMAIN) + 1)
    ELSE lhs + rhs

\* the result of a binary operator on lhs (pushed first) and rhs
binary(op, lhs, rhs) ==
    CASE op = "LVM_OP_EQ" -> truth(lhs = rhs)
      [] op = "LVM_OP_NE" -> truth(lhs # rhs)
      [] op = "LVM_OP_LT" -> truth(lhs < rhs)
      [] op = "LVM_OP_ADD" -> wrap32(lhs, rhs)
      [] op = "LVM_Conjunction" -> truth(lhs # 0 /\ rhs # 0)

\* one instruction of the machine
execute(m) ==
    LET op == opcode(m)
        a == operand(m, 1)
        b == operand(m, 2)
        it == m.iters[a]
    IN  CASE op \in Markers -> advance(m, 1)
          [] op = "LVM_STOP" -> advance(m, 0)
          [] op = "LVM_Goto" -> jump(m, a)
          [] op = "LVM_Jmpnz" ->
                IF top(m, 1)[1] # 0 THEN jump(drop(m, 1), a)
                ELSE advance(drop(m, 1), 2)
          [] op = "LVM_Jmpez" ->
                IF top(m, 1)[1] = 0 THEN jump(drop(m, 1), a)
                ELSE advance(drop(m, 1), 2)
          [] op = "LVM_Number" -> advance(push(m, a), 2)
          [] op = "LVM_TupleElement" -> advance(push(m, m.tuples[a][b + 1]), 3)
          [] op = "LVM_True" -> advance(push(m, 1), 1)
          [] op = "LVM_False" -> advance(push(m, 0), 1)
          [] op = "LVM_Negation" ->
                advance(push(drop(m, 1), truth(top(m, 1)[1] = 0)), 1)
          [] op \in {"LVM_OP_EQ", "LVM_OP_NE", "LVM_OP_LT", "LVM_OP_ADD",
                     "LVM_Conjunction"} ->
                advance(push(drop(m, 2),
                             binary(op, top(m, 2)[1], top(m, 2)[2])), 1)
          [] op = "LVM_OP_MIN" -> advance(push(drop(m, a), least(top(m, a))), 2)
          [] op = "LVM_OP_MAX" ->
                advance(push(drop(m, a), greatest(top(m, a))), 2)
          [] op = "LVM_EmptinessCheck" ->
                advance(push(m, truth(m.rels[a + 1] = <<>>)), 2)
          [] op = "LVM_ITER_InitFullIndex" ->
                advance([m EXCEPT !.iters[a] =
                            [open |-> TRUE, rows |-> m.rels[b + 1]]], 3)
          [] op = "LVM_ITER_InitRangeIndexOneArg" ->
                LET mask == operand(m, 4)
                    n == Cardinality(bitsOfInt(mask))
                IN  advance([drop(m, n) EXCEPT !.iters[a] =
                        [open |-> TRUE,
                         rows |-> rangeRows(m.rels[b + 1], mask, top(m, n))]], 5)
          [] op = "LVM_ITER_NotAtEnd" ->
                IF it.open THEN advance(push(m, truth(it.rows # <<>>)), 2)
                ELSE [m EXCEPT !.fault = TRUE]
          [] op = "LVM_ITER_Select" ->
                IF it.open /\ it.rows # <<>>
                THEN advance([m EXCEPT !.tuples[b] = Head(it.rows)], 3)
                ELSE [m EXCEPT !.fault = TRUE]
          [] op = "LVM_ITER_Inc" ->
                IF it.open /\ it.rows # <<>>
                THEN advance([m EXCEPT !.iters[a].rows = Tail(@)], 2)
                ELSE [m EXCEPT !.fault = TRUE]
          [] op = "LVM_Aggregate_COUNT" ->
                IF it.open THEN advance(push(m, Len(it.rows)), 2)
                ELSE [m EXCEPT !.fault = TRUE]
          [] op = "LVM_Aggregate_Return" ->
                advance([drop(m, 1) EXCEPT !.tuples[a] = top(m, 1)], 2)
          [] op = "LVM_Search" -> advance(m, 3)
          [] op = "LVM_Filter" -> advance(m, 2)
          [] op = "LVM_Project" ->
                advance([drop(m, a) EXCEPT !.rels[b + 1] =
                            insertRow(@, Reverse(top(m, a)))], 3)
          [] op = "LVM_Clear" -> advance([m EXCEPT !.rels[a + 1] = <<>>], 2)
          [] op = "LVM_Merge" ->
                advance([m EXCEPT !.rels[b + 1] =
                            insertRows(@, m.rels[a + 1])], 3)
          [] op = "LVM_IncIterationNumber" ->
                advance([m EXCEPT !.iteration = @ + 1], 1)
          [] op = "LVM_ResetIterationNumber" ->
                advance([m EXCEPT !.iteration = 0], 1)
          [] op = "LVM_LogTimer" -> advance(m, 3)
          [] op = "LVM_LogRelationTimer" -> advance(m, 4)
          [] op = "LVM_StopLogTimer" -> advance(m, 2)
          [] OTHER -> [m EXCEPT !.fault = TRUE]

(***************************************************************************)
(* The programs that are run: aggregates (plain and indexed) whose result   *)
(* feeds a projection, scans, choices, and loops left through an Exit.      *)
(***************************************************************************)
\* the aggregates over A, of the first column of the rows meeting c
RunAggregates ==
    {Aggregate(f, RelA, 0, c, TupleElement(0, 0), EmitRow(0)) :
        f \in AggregateFunctions, c \in {True, RowCondition(0)}}
    \cup {IndexAggregate(f, RelA, 0, p, 1, c, TupleElement(0, 0), EmitRow(0)) :
            f \in AggregateFunctions, c \in {True, RowCondition(0)},
            p \in {<<Number(1), UndefValue>>, <<UndefValue, Number(1)>>}}

\* the scans and choices over A
RunSearches ==
    {Scan(RelA, 0, "", EmitRow(0)),
     Scan(RelA, 0, "", Break(RowCondition(0), EmitRow(0))),
     IndexScan(RelA, 0, <<Number(1), UndefValue>>, 1, EmitRow(0)),
     Choice(RelA, 0, RowCondition(0), EmitRow(0)),
     Choice(RelA, 0, True, EmitRow(0)),
     IndexChoice(RelA, 0, <<Number(1), UndefValue>>, 1, RowCondition(0),
                 EmitRow(0)),
     IndexChoice(RelA, 0, <<UndefValue, Number(1)>>, 2, RowCondition(0),
                 EmitRow(0)),
     Scan(RelA, 0, "",
          Aggregate("MIN", RelA, 1, RowCondition(1), TupleElement(1, 0),
                    EmitRow(1)))}

\* the loops: each is left through its Exit
RunLoops ==
    {Loop(Exit(True)),
     Loop(Sequence(<<Exit(EmptinessCheck(RelA)), RelStmt("Clear", RelA)>>)),
     Sequence(<<Loop(Sequence(<<Exit(EmptinessCheck(RelA)),
                                Merge(RelA, RelB), RelStmt("Clear", RelA)>>)),
                Query(Scan(RelB, 0, "", EmitRow(0)))>>),
     Loop(Sequence(<<Query(Scan(RelA, 0, "", EmitRow(0))),
                     Exit(Negation(EmptinessCheck(RelB))),
                     Exit(True)>>))}

\* two queries one after the other: the second iterates on slot 1
RunSequences ==
    {Sequence(<<Query(Scan(RelA, 0, "", EmitRow(0))),
                Query(Aggregate("COUNT", RelB, 0, True, TupleElement(0, 0),
                                EmitRow(0)))>>),
     Sequence(<<Query(Choice(RelA, 0, RowCondition(0), EmitRow(0))),
                Query(Scan(RelB, 0, "", EmitRow(0)))>>)}

\* timed statements: a timer around a query, timers in a loop that is left
\* through an Exit beside them, and timers around the Exit itself
RunTimers ==
    LET exit == Exit(EmptinessCheck(RelA))
        clear == RelStmt("Clear", RelA)
        scan == Query(Scan(RelA, 0, "", Break(RowCondition(0), EmitRow(0))))
    IN  {LogTimer("t", scan),
         LogRelationTimer("r", RelA, LogTimer("t", scan)),
         Loop(Sequence(<<LogTimer("t", clear), exit>>)),
         Loop(Sequence(<<LogTimer("t", exit), clear>>)),
         Loop(LogRelationTimer("r", RelA,
                               Sequence(<<LogTimer("t", scan), exit, clear>>)))}

RunPrograms ==
    {Query(op) : op \in RunAggregates \cup RunSearches}
        \cup RunLoops \cup RunSequences \cup RunTimers

ExecInit ==
    /\ pc = "constructor"
    /\ entry \in RunPrograms
    /\ ramDomainSize = 32
    /\ shiftUB = "wrap"
    /\ relNameToIndex = encodeAll(NewEncoder, AllRelations).relNameToIndex
    /\ relationMap = encodeAll(NewEncoder, AllRelations).relationMap
    /\ symbolTable = <<>>
    /\ NewGenerator
    /\ lastCall = noCall
    /\ machine = noMachine
    /\ adornment = noAdornment

\* the interpreter is handed the finished stream and the relations
Start ==
    /\ pc = "done"
    /\ \E rows \in Datasets : machine' = startMachine(rows, iteratorIndex)
    /\ pc' = "running"
    /\ UNCHANGED <<entry, ramDomainSize, shiftUB, relNameToIndex, relationMap,
                   symbolTable, code, origin, ioDirectives, currentAddressLabel,
                   addressMap, iteratorIndex, timerIndex, setLog, firstWalk,
                   lastCall, adornment>>

\* the interpreter executes the instruction it is at; STOP ends the run
Step ==
    /\ pc = "running"
    /\ ~machine.fault
    /\ machine' = execute(machine)
    /\ pc' = IF opcode(machine) = "LVM_STOP" THEN "stopped" ELSE "running"
    /\ UNCHANGED <<entry, ramDomainSize, shiftUB, relNameToIndex, relationMap,
                   symbolTable, code, origin, ioDirectives, currentAddressLabel,
                   addressMap, iteratorIndex, timerIndex, setLog, firstWalk,
                   lastCall, adornment>>

ExecNext == Next \/ Start \/ Step

ExecSpec == ExecInit /\ [][ExecNext]_vars

\* nothing the interpreter is given is outside what it decodes
ExecSupported == pc \in {"running", "stopped"} => ~machine.fault

\* every run ends at STOP
ExecStops == <>(pc = "stopped")

(***************************************************************************)
(* The meaning of the RAM nodes the run programs are made of.               *)
(***************************************************************************)
\* the value of an expression when the tuple it reads is row
valueOf(expr, row) ==
    IF expr.k = "TupleElement" THEN row[expr.element + 1] ELSE expr.constant

\* whether a condition holds when the tuple it reads is row
holds(cond, row) ==
    CASE cond.k = "True" -> TRUE
      [] cond.k = "Constraint" /\ cond.operator = "NE" ->
            valueOf(cond.lhs, row) # valueOf(cond.rhs, row)

\* whether row is in the range of an indexed construct (any row of a plain one)
inRange(node, row) ==
    "rangePattern" \in DOMAIN node =>
        \A i \in DOMAIN node.rangePattern :
            isRamUndefValue(node.rangePattern[i])
                \/ row[i] = node.rangePattern[i].constant

\* the rows of the input the construct of the program acts on, in order
Matching ==
    SelectSeq(machine.input,
              LAMBDA row : inRange(Construct, row) /\ holds(Construct.condition, row))

Running == pc \in {"running", "stopped"}

RunsAggregate(functions) ==
    /\ Running
    /\ Construct.k \in {"Aggregate", "IndexAggregate"}
    /\ Construct.function \in functions

\* the offsets of the words of the nested operation of the aggregate run
NestedWords ==
    LET first == CHOOSE i \in OpPositions({"LVM_Search"}) :
                    \A j \in OpPositions({"LVM_Search"}) : i <= j
    IN  {i - 1 : i \in first..(Len(code) - 1)}

\* the offset of the jump that guards the nested operation of a min or max
GuardJump ==
    (CHOOSE i \in OpPositions({"LVM_Jmpnz"}) :
        \A j \in OpPositions({"LVM_Jmpnz"}) : j <= i) - 1

seedOf(function) == IF function = "MIN" THEN MAX_RAM_DOMAIN ELSE MIN_RAM_DOMAIN

\* C12: running a min or max aggregate, plain or indexed, over rows none of
\* which is in range and meets the condition never executes a word of the
\* nested operation: at the guard the accumulator saved in the tuple is the
\* seed, the comparison with the seed is true and the jump goes past the
\* body, so the run ends with nothing projected.
C12_EmptyAggregateSkipsBody ==
    (RunsAggregate({"MIN", "MAX"}) /\ Matching = <<>>) =>
        /\ machine.ran \cap NestedWords = {}
        /\ machine.ip = GuardJump =>
            /\ machine.tuples[Construct.tupleId] = <<seedOf(Construct.function)>>
            /\ top(machine, 1) = <<1>>
            /\ operand(machine, 1) = Len(code) - 1
        /\ pc = "stopped" => GuardJump \in machine.ran /\ machine.rels[2] = <<>>

C12_Witness ==
    /\ RunsAggregate({"MIN"})
    /\ Construct.k = "IndexAggregate"
    /\ Construct.condition # True
    /\ Len(machine.input) = 2
    /\ Matching = <<>>
    /\ pc = "stopped"
    /\ GuardJump \in machine.ran

(***************************************************************************)
(* The count shortcut.                                                      *)
(***************************************************************************)
\* the count aggregate of a program of CountPrograms
CountNode ==
    IF Construct.k = "Scan" THEN Construct.operation ELSE Construct

\* the position of the LVM_Aggregate word
AggregateAt == CHOOSE i \in OpPositions({"LVM_Aggregate"}) : TRUE

\* the iterator slot of the aggregate: the iterating constructs opened before
CountSlot == IF Construct.k = "Scan" THEN 1 ELSE 0

\* the opcodes of a loop skeleton
SkeletonOpcodes ==
    {"LVM_ITER_NotAtEnd", "LVM_ITER_Select", "LVM_ITER_Inc", "LVM_Jmpez",
     "LVM_Jmpnz", "LVM_Goto"}

\* the words of the stream at positions p .. p + Len(ws) - 1 are ws
WordsAt(p, ws) ==
    /\ p + Len(ws) - 1 <= Len(code)
    /\ SubSeq(code, p, p + Len(ws) - 1) = ws

\* C13 as stated: the shortcut is LVM_Aggregate, slot, LVM_ITER_InitFullIndex,
\* slot, id(R), LVM_Aggregate_COUNT, slot, LVM_Aggregate_Return, tid.
C13_CountShortcutWords ==
    (pc = "done" /\ entry \in CountPrograms) =>
        WordsAt(AggregateAt,
                <<LVM("LVM_Aggregate"), CountSlot,
                  LVM("LVM_ITER_InitFullIndex"), CountSlot,
                  relNameToIndex[CountNode.relation.name],
                  LVM("LVM_Aggregate_COUNT"), CountSlot,
                  LVM("LVM_Aggregate_Return"), CountNode.tupleId>>)

\* C13, amended: a count aggregate over R with the trivially-true condition
\* is lowered to the words LVM_Aggregate, LVM_ITER_InitFullIndex, slot,
\* id(R), LVM_Aggregate_COUNT, slot, LVM_Aggregate_Return, tid, followed by
\* the nested operation; LVM_Aggregate has no operand, and from
\* LVM_Aggregate to the end of the nested operation there is no word of a
\* loop skeleton.
C13_CountShortcutNoSlotOperand ==
    (pc = "done" /\ entry \in CountPrograms) =>
        /\ Cardinality(OpPositions({"LVM_Aggregate"})) = 1
        /\ WordsAt(AggregateAt,
                   <<LVM("LVM_Aggregate"),
                     LVM("LVM_ITER_InitFullIndex"), CountSlot,
                     relNameToIndex[CountNode.relation.name],
                     LVM("LVM_Aggregate_COUNT"), CountSlot,
                     LVM("LVM_Aggregate_Return"), CountNode.tupleId,
                     LVM("LVM_Search")>>)
        /\ origin[AggregateAt + 8].t = "op"
        /\ \A i \in OpPositions(SkeletonOpcodes) :
              /\ Construct.k = "Scan"
              /\ i < AggregateAt \/ i >= Len(code) - 4

\* the shortcut below a scan: slot 1, relation id 1, tuple id 2
C13_Witness ==
    /\ pc = "done"
    /\ entry \in CountPrograms
    /\ Construct.k = "Scan"
    /\ CountSlot = 1
    /\ code[AggregateAt + 2] = 1
    /\ code[AggregateAt + 5] = 1
    /\ code[AggregateAt + 7] = 2

(***************************************************************************)
(* A scan whose rows are projected.                                         *)
(***************************************************************************)
\* the position of the LVM_Scan word
ScanAt == CHOOSE i \in OpPositions({"LVM_Scan"}) : TRUE

IdOf(rel) == relNameToIndex[rel.name]

\* C14 as stated: the lowering of the scan begins LVM_Scan, 0, 0,
\* LVM_ITER_InitFullIndex, 0, id(R).
C14_ScanBeginsWithOperands ==
    (pc = "done" /\ entry \in ScanProjectPrograms) =>
        WordsAt(ScanAt, <<LVM("LVM_Scan"), 0, 0, LVM("LVM_ITER_InitFullIndex"),
                          0, IdOf(Construct.relation)>>)

\* C14, amended: the lowering of a scan over R (arity 2) that projects
\* tuple0[0], tuple0[1] into S is LVM_Scan (without operand),
\* LVM_ITER_InitFullIndex, 0, id(R); LVM_ITER_NotAtEnd, 0, LVM_Jmpez to the
\* offset after the loop; LVM_ITER_Select, 0, 0; LVM_Search, the profile
\* flag, the profile text; the arguments of the projection from the last
\* column to the first; LVM_Project, 2, id(S); LVM_ITER_Inc, 0; LVM_Goto to
\* the offset of the LVM_ITER_NotAtEnd word.
C14_ScanProjectStream ==
    (pc = "done" /\ entry \in ScanProjectPrograms) =>
        LET p == ScanAt
            text == Construct.profileText
        IN  /\ WordsAt(p,
                  <<LVM("LVM_Scan"),
                    LVM("LVM_ITER_InitFullIndex"), 0, IdOf(Construct.relation),
                    LVM("LVM_ITER_NotAtEnd"), 0,
                    LVM("LVM_Jmpez"), (p - 1) + 27,
                    LVM("LVM_ITER_Select"), 0, 0,
                    LVM("LVM_Search"), IF text = "" THEN 0 ELSE 1,
                    symbolIndex(symbolTable, text),
                    LVM("LVM_TupleElement"), 0, 1,
                    LVM("LVM_TupleElement"), 0, 0,
                    LVM("LVM_Project"), 2, IdOf(RelS),
                    LVM("LVM_ITER_Inc"), 0,
                    LVM("LVM_Goto"), (p - 1) + 4>>)
            /\ code[(p - 1) + 4 + 1] = LVM("LVM_ITER_NotAtEnd")
            /\ origin[(p - 1) + 4 + 1].t = "op"
            /\ Len(code) = (p - 1) + 27 + 1

\* the scan of A into S with a profile text, lowered
C14_Witness ==
    /\ pc = "done"
    /\ entry \in ScanProjectPrograms
    /\ Construct.profileText = "scan"
    /\ Construct.relation = RelA
    /\ IdOf(RelS) = 2
    /\ code[ScanAt + 1] = LVM("LVM_ITER_InitFullIndex")

(***************************************************************************)
(* Parallel: the lowering of a program on its own, to compare with.         *)
(***************************************************************************)
\* a generator as constructed, over the encoder of the initial state
FreshGenerator ==
    [code |-> <<>>, origin |-> <<>>, ioDirectives |-> <<>>,
     currentAddressLabel |-> 0, addressMap |-> <<>>,
     iteratorIndex |-> 0, timerIndex |-> 0,
     relNameToIndex |-> encodeAll(NewEncoder, AllRelations).relNameToIndex,
     relationMap |-> encodeAll(NewEncoder, AllRelations).relationMap,
     symbolTable |-> <<>>, setLog |-> <<>>,
     ramDomainSize |-> ramDomainSize, shiftUB |-> shiftUB]

\* the generator after its constructor ran on the program p
Compile(p) ==
    LET g1 == visit(p, 0, FreshGenerator)
        g2 == cleanUp(g1)
        g3 == visit(p, 0, g2)
    IN  <<g1, g2, g3, pushStop(g3)>>[4]

\* the words p is lowered to (the stream of p without the final LVM_STOP)
\* and what p allocates
Lowering(p) ==
    LET g == Compile(p)
    IN  [code |-> SubSeq(g.code, 1, Len(g.code) - 1), origin |-> g.origin,
         iterators |-> g.iteratorIndex, timers |-> g.timerIndex,
         records |-> Len(g.ioDirectives), symbols |-> g.symbolTable]

\* the sum of the first n numbers of a sequence
RECURSIVE SumTo(_, _)
SumTo(f, n) == IF n = 0 THEN 0 ELSE SumTo(f, n - 1) + f[n]

\* C15: a Parallel emits no word of its own. Its stream is the lowerings of
\* its children one after the other, each as the child is lowered on its
\* own but for the relocation of what is numbered along the stream (jump
\* targets by the words before the child, iterator slots, timers and I/O
\* records by those of the children before it, symbols by their text); an
\* empty Parallel emits nothing, a Parallel of one child what the child
\* emits; LVM_Parallel and LVM_Stop_Parallel are opcodes of no stream.
C15_ParallelIsConcatenation ==
    /\ pc = "done" =>
          Opcodes \cap {LVM("LVM_Parallel"), LVM("LVM_Stop_Parallel")} = {}
    /\ (pc = "done" /\ entry \in ParallelPrograms) =>
          LET children == entry.statements
              low == [i \in DOMAIN children |-> Lowering(children[i])]
              base(i) == SumTo([k \in DOMAIN children |-> Len(low[k].code)], i - 1)
              slots(i) == SumTo([k \in DOMAIN children |-> low[k].iterators], i - 1)
              timers(i) == SumTo([k \in DOMAIN children |-> low[k].timers], i - 1)
              records(i) == SumTo([k \in DOMAIN children |-> low[k].records], i - 1)
          IN  /\ Len(code) = base(Len(children) + 1) + 1
              /\ code[Len(code)] = LVM_STOP
              /\ \A i \in DOMAIN children : \A j \in DOMAIN low[i].code :
                    LET w == low[i].code[j]
                        t == low[i].origin[j].t
                        v == code[base(i) + j]
                    IN  /\ origin[base(i) + j].t = t
                        /\ CASE t = "target" -> v = w + base(i)
                             [] t = "iter" -> v = w + slots(i)
                             [] t = "timer" -> v = w + timers(i)
                             [] t = "io" -> v = w + records(i)
                             [] t = "sym" ->
                                  symbolTable[v + 1] = low[i].symbols[w + 1]
                             [] OTHER -> v = w
              /\ children = <<>> => code = <<LVM_STOP>>
              /\ Len(children) = 1 => code = Compile(children[1]).code

\* a Parallel of two children that both emit jumps, lowered
C15_Witness ==
    /\ pc = "done"
    /\ entry \in ParallelPrograms
    /\ Len(entry.statements) = 2
    /\ entry.statements[1].k = "Loop"
    /\ entry.statements[2].k = "Query"
    /\ Cardinality(OpPositions({"LVM_Goto"})) = 2

(***************************************************************************)
(* The I/O directives.                                                      *)
(***************************************************************************)
\* the Load and Store nodes of a statement, in the order of the traversal
RECURSIVE ioNodesOf(_)
RECURSIVE ioNodesOfAll(_)
ioNodesOf(node) ==
    CASE node.k \in {"Load", "Store"} -> <<node>>
      [] node.k \in {"Sequence", "Parallel"} -> ioNodesOfAll(node.statements)
      [] node.k \in {"Loop", "Stratum"} -> ioNodesOf(node.body)
      [] node.k \in {"LogTimer", "LogRelationTimer", "DebugInfo"} ->
            ioNodesOf(node.statement)
      [] OTHER -> <<>>

ioNodesOfAll(stmts) ==
    IF stmts = <<>> THEN <<>>
    ELSE ioNodesOf(Head(stmts)) \o ioNodesOfAll(Tail(stmts))

\* the positions of the operands that index the sidetable
IoOperands == {i \in DOMAIN code : origin[i].t = "io"}

\* C16: after construction the sidetable of I/O directives holds one record
\* per Load or Store node of the program, in the order of the traversal (and
\* not the records of the first walk besides), and the operand of the k-th
\* such node (from 0) is k: it is below the length of the sidetable and
\* designates the directives of its own node.
C16_IoSidetable ==
    pc = "done" =>
        LET nodes == ioNodesOf(entry)
        IN  /\ ioDirectives = [k \in DOMAIN nodes |-> nodes[k].ioDirectives]
            /\ Cardinality(IoOperands) = Len(nodes)
            /\ \A i \in IoOperands :
                  LET k == Cardinality({j \in IoOperands : j < i})
                  IN  /\ code[i] = k
                      /\ code[i] < Len(ioDirectives)
                      /\ code[i - 2] = LVM("LVM_" \o nodes[k + 1].k)
                      /\ origin[i - 2].t = "op"
                      /\ code[i - 1] = IdOf(nodes[k + 1].relation)
                      /\ ioDirectives[code[i] + 1] = nodes[k + 1].ioDirectives

\* a store after a load, lowered: the operand of the store is 1
C16_Witness ==
    /\ pc = "done"
    /\ Len(ioDirectives) = 2
    /\ ioDirectives[1] # ioDirectives[2]
    /\ \E i \in IoOperands : code[i] = 1 /\ code[i - 2] = LVM("LVM_Store")

(***************************************************************************)
(* The emission of expressions.                                             *)
(***************************************************************************)
\* the words of an expression in post-order: the arguments, each in full,
\* then the opcode of the node and its operands
RECURSIVE postOrder(_)
RECURSIVE postOrderAll(_)
postOrder(e) ==
    CASE e.k = "Number" -> <<LVM("LVM_Number"), e.constant>>
      [] e.k = "TupleElement" -> <<LVM("LVM_TupleElement"), e.tupleId, e.element>>
      [] e.k = "IntrinsicOperator" /\ e.operator \in {"MAX", "MIN"} ->
            postOrderAll(e.args) \o <<LVM("LVM_OP_" \o e.operator), Len(e.args)>>
      [] e.k = "IntrinsicOperator" /\ e.operator = "CAT" ->
            postOrderAll(Reverse(e.args)) \o <<LVM("LVM_OP_CAT"), Len(e.args)>>
      [] e.k = "IntrinsicOperator" /\ e.operator \notin {"MAX", "MIN", "CAT"} ->
            postOrderAll(e.args) \o <<LVM("LVM_OP_" \o e.operator)>>
      [] e.k = "UserDefinedOperator" ->
            postOrderAll(Reverse(e.args))
                \o <<LVM("LVM_UserDefinedOperator"),
                     symbolIndex(symbolTable, e.name),
                     symbolIndex(symbolTable, e.type), Len(e.args)>>
      [] e.k = "PackRecord" ->
            postOrderAll(e.args) \o <<LVM("LVM_PackRecord"), Len(e.args)>>

postOrderAll(es) ==
    IF es = <<>> THEN <<>> ELSE postOrder(Head(es)) \o postOrderAll(Tail(es))

\* the expression of a program of ExpressionPrograms
TheExpression == entry.operation.values[1]

\* C17: the words of an expression are in post-order: every argument is
\* emitted in full before the opcode of its node; the arguments are in
\* index order, but those of cat and of a user-defined operator in reverse
\* index order; min, max and cat are followed by the number of arguments, a
\* user-defined operator by the symbols of its name and type and the number
\* of arguments.
C17_ExpressionsPostOrder ==
    (pc = "done" /\ entry \in ExpressionPrograms) =>
        /\ code = <<LVM("LVM_Query")>> \o postOrder(TheExpression)
                    \o <<LVM("LVM_Project"), 1, IdOf(RelB), LVM_STOP>>
        /\ TheExpression.k = "UserDefinedOperator" =>
              /\ symbolTable[code[Len(code) - 6] + 1] = TheExpression.name
              /\ symbolTable[code[Len(code) - 5] + 1] = TheExpression.type

\* cat over a binary operator and a user-defined operator over a record,
\* lowered: the user-defined operator comes first, its record before the
\* number
C17_Witness ==
    /\ pc = "done"
    /\ entry \in ExpressionPrograms
    /\ TheExpression.k = "IntrinsicOperator"
    /\ TheExpression.operator = "CAT"
    /\ Len(TheExpression.args) = 2
    /\ TheExpression.args[2].k = "UserDefinedOperator"
    /\ WordsAt(2, <<LVM("LVM_Number"), 11, LVM("LVM_Number"), 12,
                    LVM("LVM_PackRecord"), 2, LVM("LVM_Number"), 13,
                    LVM("LVM_UserDefinedOperator")>>)

(***************************************************************************)
(* The iterator slots.                                                      *)
(***************************************************************************)
\* the slot operands a node gives rise to, in the order of the stream, when
\* the iterating nodes before it are k: a node that iterates takes slot k
\* for its initialisation, test, select and increment (or its count), the
\* nodes below it the slots from k + 1
RECURSIVE slotsOf(_, _)
RECURSIVE slotsOfAll(_, _)
slotsOf(node, k) ==
    LET below == slotsOf(node.operation, k + 1)
    IN  CASE node.k \in {"Scan", "IndexScan"} ->
                [seq |-> <<k, k, k>> \o below.seq \o <<k>>, next |-> below.next]
          [] node.k \in {"Choice", "IndexChoice"} ->
                [seq |-> <<k, k, k, k>> \o below.seq, next |-> below.next]
          [] node.k \in {"Aggregate", "IndexAggregate"} ->
                [seq |-> (IF isCountShortcut(node) THEN <<k, k>>
                          ELSE <<k, k, k, k>>) \o below.seq,
                 next |-> below.next]
          [] node.k \in {"Break", "Filter", "Query"} -> slotsOf(node.operation, k)
          [] node.k = "Loop" -> slotsOf(node.body, k)
          [] node.k \in {"LogTimer", "LogRelationTimer"} ->
                slotsOf(node.statement, k)
          [] node.k = "Sequence" -> slotsOfAll(node.statements, k)
          [] OTHER -> [seq |-> <<>>, next |-> k]

slotsOfAll(stmts, k) ==
    IF stmts = <<>> THEN [seq |-> <<>>, next |-> k]
    ELSE LET first == slotsOf(Head(stmts), k)
             rest == slotsOfAll(Tail(stmts), first.next)
         IN  [seq |-> first.seq \o rest.seq, next |-> rest.next]

\* the positions of the operands that are iterator slots
SlotOperands == {i \in DOMAIN code : origin[i].t = "iter"}

\* the opcodes that have an iterator slot as their first operand
SlotOpcodes ==
    {"LVM_ITER_InitFullIndex", "LVM_ITER_InitRangeIndex",
     "LVM_ITER_InitRangeIndexOneArg", "LVM_ITER_NotAtEnd", "LVM_ITER_Select",
     "LVM_ITER_Inc", "LVM_Aggregate_COUNT"}

\* the opcodes that open a node that iterates
IteratingOpcodes ==
    {"LVM_Scan", "LVM_IndexScan", "LVM_Choice", "LVM_IndexChoice",
     "LVM_Aggregate", "LVM_IndexAggregate"}

\* C18: in the final stream the slots that are operands of the
\* initialisations, tests, selects, increments and counts are exactly
\* 0..n-1, n the number of iterating nodes, numbered in the order of the
\* traversal: every node uses one slot for all its words and no two nodes
\* the same; and whenever a test, select or increment on a slot is about to
\* be executed, an initialisation of that slot has been executed.
C18_IteratorSlots ==
    /\ pc \in {"done", "running", "stopped"} =>
          LET n == Cardinality(OpPositions(IteratingOpcodes))
              expected == slotsOf(entry, 0)
          IN  /\ iteratorIndex = n
              /\ expected.next = n
              /\ {code[i] : i \in SlotOperands} = 0..(n - 1)
              /\ SlotOperands = {i + 1 : i \in OpPositions(SlotOpcodes)}
              /\ Cardinality(SlotOperands) = Len(expected.seq)
              /\ \A i \in SlotOperands :
                    code[i] = expected.seq[Cardinality({j \in SlotOperands : j <= i})]
    /\ (pc = "running"
            /\ opcode(machine) \in {"LVM_ITER_NotAtEnd", "LVM_ITER_Select",
                                    "LVM_ITER_Inc"}) =>
          /\ machine.iters[operand(machine, 1)].open
          /\ \E i \in machine.ran :
                /\ code[i + 1] \in {LVM("LVM_ITER_InitFullIndex"),
                                    LVM("LVM_ITER_InitRangeIndexOneArg")}
                /\ code[i + 2] = operand(machine, 1)
    /\ pc \in {"running", "stopped"} => ~machine.fault

\* a min aggregate below a scan, running: the increment of the scan (slot 0)
\* is about to be executed after the aggregate iterated on slot 1
C18_Witness ==
    /\ pc = "running"
    /\ Construct.k = "Scan"
    /\ Construct.operation.k = "Aggregate"
    /\ iteratorIndex = 2
    /\ opcode(machine) = "LVM_ITER_Inc"
    /\ operand(machine, 1) = 0
    /\ \E i \in machine.ran :
          code[i + 1] = LVM("LVM_ITER_Inc") /\ code[i + 2] = 1

(***************************************************************************)
(* Leaving a loop.                                                          *)
(***************************************************************************)
\* the machine has just taken the jump of an Exit (in the loops that are run
\* every LVM_Jmpnz is the jump of an Exit)
ExitTaken ==
    /\ pc = "running"
    /\ entry \in RunLoops
    /\ machine.last >= 0
    /\ code[machine.last + 1] = LVM("LVM_Jmpnz")
    /\ origin[machine.last + 1].t = "op"
    /\ machine.ip = code[machine.last + 2]

\* the offsets of the LVM_ResetIterationNumber words
ResetWords == {i - 1 : i \in OpPositions({"LVM_ResetIterationNumber"})}

\* C19: whenever the run leaves a loop through an Exit, the word executed
\* next is the LVM_ResetIterationNumber of the loop, so the iteration
\* counter is 0 when the first word after the loop is executed and a
\* finished run has executed the reset of every loop it left.
C19_ResetOnExit ==
    /\ ExitTaken => opcode(machine) = "LVM_ResetIterationNumber"
    /\ (pc = "stopped" /\ entry \in RunLoops) =>
          /\ machine.iteration = 0
          /\ ResetWords \subseteq machine.ran

\* the loop that empties A, run over a non-empty A to the end: the Exit of
\* the second iteration jumped to the offset after the reset, the reset was
\* not executed and the iteration counter is still 1
C19_FailingInput ==
    /\ pc = "stopped"
    /\ entry = Loop(Sequence(<<Exit(EmptinessCheck(RelA)), RelStmt("Clear", RelA)>>))
    /\ machine.input # <<>>
    /\ machine.iteration = 1
    /\ ResetWords # {}
    /\ ResetWords \cap machine.ran = {}
    /\ \E i \in machine.ran :
          code[i + 1] = LVM("LVM_Jmpnz") /\ code[i + 2] - 1 \in ResetWords

(***************************************************************************)
(* The counters between the walks.                                          *)
(***************************************************************************)
\* C20 as stated: between the walks the iterator and timer counters are 0
\* and the label counter keeps the value the first walk left; the labels of
\* the second walk resolve to the offsets the first walk recorded.
C20_LabelCounterKept ==
    /\ pc = "cleaned" =>
          /\ iteratorIndex = 0
          /\ timerIndex = 0
          /\ currentAddressLabel = firstWalk.currentAddressLabel
    /\ pc \in {"walked again", "done"} =>
          \A i \in LookupPositions :
              code[i] = firstWalk.addressMap[origin[i].lab + 1]

\* C20, amended: between the walks the label counter, the iterator counter
\* and the timer counter are all 0; what is kept is the table of the
\* labels. The second walk allocates the labels of the first walk again,
\* from 0, and each resolves to the offset the first walk recorded for it.
C20_CountersResetTableKept ==
    /\ pc = "cleaned" =>
          /\ iteratorIndex = 0
          /\ timerIndex = 0
          /\ currentAddressLabel = 0
          /\ addressMap = firstWalk.addressMap
          /\ Len(addressMap) = firstWalk.currentAddressLabel
    /\ pc \in {"walked again", "done"} =>
          /\ currentAddressLabel = firstWalk.currentAddressLabel
          /\ iteratorIndex = firstWalk.iteratorIndex
          /\ timerIndex = firstWalk.timerIndex
          /\ \A i \in LookupPositions :
                /\ origin[i].lab < firstWalk.currentAddressLabel
                /\ code[i] = firstWalk.addressMap[origin[i].lab + 1]

\* between the walks of a program whose first walk allocated labels, an
\* iterator and a timer
C20_Witness ==
    /\ pc = "cleaned"
    /\ firstWalk.currentAddressLabel >= 1
    /\ firstWalk.iteratorIndex >= 1
    /\ firstWalk.timerIndex >= 1
    /\ currentAddressLabel = 0
    /\ addressMap # <<>>

(***************************************************************************)
(* The order of the words of a node and of its children.                    *)
(***************************************************************************)
\* the words of a child that emits neither jump nor slot nor symbol
wordsOf(child) == Lowering(child).code

RECURSIVE wordsOfAll(_)
wordsOfAll(children) ==
    IF children = <<>> THEN <<>>
    ELSE wordsOf(Head(children)) \o wordsOfAll(Tail(children))

\* the words of node n at `before`, as runs of its own words (own) and of
\* the words of its children, in the order of the stream
runsOf(n, before) ==
    LET own(ws) == [own |-> TRUE, words |-> ws]
        of(ws) == [own |-> FALSE, words |-> ws]
        sym(text) == symbolIndex(symbolTable, text)
    IN  CASE n.k = "Sequence" ->
                <<own(<<LVM("LVM_Sequence")>>), of(wordsOfAll(n.statements))>>
          [] n.k = "Stratum" -> <<own(<<LVM("LVM_Stratum")>>), of(wordsOf(n.body))>>
          [] n.k = "Query" -> <<own(<<LVM("LVM_Query")>>), of(wordsOf(n.operation))>>
          [] n.k = "DebugInfo" ->
                <<own(<<LVM("LVM_DebugInfo"), sym(n.message)>>),
                  of(wordsOf(n.statement))>>
          [] n.k = "LogTimer" ->
                <<own(<<LVM("LVM_LogTimer"), sym(n.message), 0>>),
                  of(wordsOf(n.statement)),
                  own(<<LVM("LVM_StopLogTimer"), 0>>)>>
          [] n.k = "LogRelationTimer" ->
                <<own(<<LVM("LVM_LogRelationTimer"), sym(n.message), 0,
                        IdOf(n.relation)>>),
                  of(wordsOf(n.statement)),
                  own(<<LVM("LVM_StopLogTimer"), 0>>)>>
          [] n.k = "Constraint" ->
                <<own(<<LVM("LVM_Constraint")>>),
                  of(wordsOf(n.lhs) \o wordsOf(n.rhs)),
                  own(<<LVM("LVM_OP_" \o n.operator)>>)>>
          [] n.k = "Filter" ->
                <<own(<<LVM("LVM_Filter"), sym(n.profileText)>>),
                  of(wordsOf(n.condition)),
                  own(<<LVM("LVM_Jmpez"),
                        before + 4 + Len(wordsOf(n.condition))
                            + Len(wordsOf(n.operation))>>),
                  of(wordsOf(n.operation))>>
          [] n.k = "UnpackRecord" ->
                <<of(wordsOf(n.expression)),
                  own(<<LVM("LVM_UnpackRecord"), n.arity, n.tupleId,
                        before + 7 + Len(wordsOf(n.expression))
                            + Len(wordsOf(n.operation)),
                        LVM("LVM_Search"), 0, sym(n.profileText)>>),
                  of(wordsOf(n.operation))>>
          [] n.k = "Conjunction" ->
                <<of(wordsOf(n.lhs) \o wordsOf(n.rhs)),
                  own(<<LVM("LVM_Conjunction")>>)>>
          [] n.k = "Negation" ->
                <<of(wordsOf(n.operand)), own(<<LVM("LVM_Negation")>>)>>
          [] n.k = "Project" ->
                <<of(wordsOfAll(Reverse(n.values))),
                  own(<<LVM("LVM_Project"), n.relation.arity,
                        IdOf(n.relation)>>)>>

RECURSIVE Flatten(_)
Flatten(runs) ==
    IF runs = <<>> THEN <<>> ELSE Head(runs).words \o Flatten(Tail(runs))

\* the runs of the children, then the runs of the node itself
ChildrenFirst(runs) ==
    SelectSeq(runs, LAMBDA r : ~r.own) \o SelectSeq(runs, LAMBDA r : r.own)

\* the cases of the program that was lowered
CasesLowered == IF pc = "done" THEN {c \in OrderCases : c.program = entry} ELSE {}

RECURSIVE timersOf(_)
RECURSIVE timersOfAll(_)
timersOf(node) ==
    CASE node.k \in {"LogTimer", "LogRelationTimer"} ->
            <<node>> \o timersOf(node.statement)
      [] node.k \in {"Sequence", "Parallel"} -> timersOfAll(node.statements)
      [] node.k \in {"Loop", "Stratum"} -> timersOf(node.body)
      [] node.k = "DebugInfo" -> timersOf(node.statement)
      [] OTHER -> <<>>

timersOfAll(stmts) ==
    IF stmts = <<>> THEN <<>>
    ELSE timersOf(Head(stmts)) \o timersOfAll(Tail(stmts))

\* the positions of the start words and of the stop words of the timers
TimerStarts == OpPositions({"LVM_LogTimer", "LVM_LogRelationTimer"})

TimerStops == OpPositions({"LVM_StopLogTimer"})

\* the position of the stop word of the timer started at position p
StopOf(p) == CHOOSE q \in TimerStops : code[q + 1] = code[p + 2]

\* C22: a timer node emits its start opcode, the id of its message and a
\* slot t, then the nested statement, then LVM_StopLogTimer t; the slots
\* are 0, 1, 2, ... in the order of the traversal, each in one start and
\* one stop word, and the start/stop pairs are properly nested.
C22_TimerSlots ==
    pc = "done" =>
        LET nodes == timersOf(entry)
            n == Len(nodes)
            nth(p) == Cardinality({q \in TimerStarts : q < p})
        IN  /\ Cardinality(TimerStarts) = n
            /\ Cardinality(TimerStops) = n
            /\ timerIndex = n
            /\ {i \in DOMAIN code : origin[i].t = "timer"}
                    = {p + 2 : p \in TimerStarts} \cup {q + 1 : q \in TimerStops}
            /\ \A t \in 0..(n - 1) :
                  /\ Cardinality({p \in TimerStarts : code[p + 2] = t}) = 1
                  /\ Cardinality({q \in TimerStops : code[q + 1] = t}) = 1
            /\ \A p \in TimerStarts :
                  LET node == nodes[nth(p) + 1]
                      head == IF node.k = "LogTimer" THEN 3 ELSE 4
                  IN  /\ code[p] = LVM("LVM_" \o node.k)
                      /\ symbolTable[code[p + 1] + 1] = node.message
                      /\ code[p + 2] = nth(p)
                      /\ node.k = "LogRelationTimer" =>
                            code[p + 3] = IdOf(node.relation)
                      /\ StopOf(p) = p + head + Len(Lowering(node.statement).code)
            /\ \A p, r \in TimerStarts :
                  p < r => StopOf(p) < r \/ StopOf(r) < StopOf(p)

\* three timers one in the other after two timers, lowered: the slots of the
\* last three are closed in the reverse order
C22_Witness ==
    /\ pc = "done"
    /\ entry \in TimerPrograms
    /\ timerIndex = 5
    /\ \E p, r \in TimerStarts :
          /\ code[p + 2] = 2
          /\ code[r + 2] = 4
          /\ StopOf(r) + 2 = StopOf(p) - 2

(***************************************************************************)
(* Running a choice.                                                        *)
(***************************************************************************)
\* the rows of the input the iterator of the construct ranges over
InRange == SelectSeq(machine.input, LAMBDA row : inRange(Construct, row))

\* how often the word at an offset of a set was executed
timesRun(offsets) ==
    Cardinality({i \in DOMAIN machine.trace : machine.trace[i] \in offsets})

OffsetsOf(names) == {i - 1 : i \in OpPositions(names)}

\* the rows of the range before the first that meets the condition
RowsBeforeMatch ==
    Cardinality({i \in DOMAIN InRange :
        \A j \in 1..i : ~holds(Construct.condition, InRange[j])})

RunsChoice == Running /\ Construct.k \in {"Choice", "IndexChoice"}

\* C23: a run of a choice executes the nested operation at most once: once
\* with the first row, in the order of the iteration, whose condition is
\* not 0, and then neither an increment nor a test of the iterator follows;
\* not at all if no row meets the condition, and then the iterator was
\* advanced over every row and the run went on at the offset after the
\* choice.
C23_ChoiceRunsBodyOnce ==
    RunsChoice =>
        LET body == OffsetsOf({"LVM_Search"})
            steps == OffsetsOf({"LVM_ITER_Inc", "LVM_ITER_NotAtEnd"})
            entered == {i \in DOMAIN machine.trace : machine.trace[i] \in body}
        IN  /\ timesRun(body) <= 1
            /\ \A i \in entered : \A j \in DOMAIN machine.trace :
                  j > i => machine.trace[j] \notin steps
            /\ timesRun(body) = 1 =>
                  /\ Matching # <<>>
                  /\ machine.tuples[Construct.tupleId] = Head(Matching)
                  /\ timesRun(OffsetsOf({"LVM_ITER_Inc"})) = RowsBeforeMatch
            /\ pc = "stopped" =>
                  /\ machine.rels[1] = machine.input
                  /\ IF Matching # <<>>
                     THEN /\ timesRun(body) = 1
                          /\ machine.rels[2] = <<<<Head(Matching)[1]>>>>
                     ELSE /\ timesRun(body) = 0
                          /\ machine.rels[2] = <<>>
                          /\ timesRun(OffsetsOf({"LVM_ITER_Inc"})) = Len(InRange)
                          /\ code[machine.trace[Len(machine.trace) - 1] + 1]
                                = LVM("LVM_Jmpez")

\* an indexed choice over two rows of the range, the second the first to
\* meet the condition, run to the end
C23_Witness ==
    /\ pc = "stopped"
    /\ Construct.k = "IndexChoice"
    /\ Len(InRange) = 2
    /\ RowsBeforeMatch = 1
    /\ timesRun(OffsetsOf({"LVM_Search"})) = 1
    /\ timesRun(OffsetsOf({"LVM_ITER_Inc"})) = 1

(***************************************************************************)
(* The exit address.                                                        *)
(***************************************************************************)
\* the positions of the jumps of the Exits and Breaks: their operand is an
\* exit address, pushed as a value and not looked up from a label
ExitJumps == {j \in OpPositions({"LVM_Jmpnz"}) : origin[j + 1].lab = -1}

\* the positions of the opcodes of the nodes that install an exit address
Installers == OpPositions({"LVM_Scan", "LVM_IndexScan", "LVM_Loop"})

\* the position of the LVM_Goto that closes the loop opened at position p:
\* the one that goes back to the header of the loop, resp. to the
\* LVM_ITER_NotAtEnd of the scan
GotoOf(p) ==
    LET tests == {t \in OpPositions({"LVM_ITER_NotAtEnd"}) : t > p}
        header == IF code[p] = LVM("LVM_Loop") THEN p
                  ELSE CHOOSE t \in tests : \A u \in tests : t <= u
    IN  CHOOSE g \in OpPositions({"LVM_Goto"}) : code[g + 1] = header - 1

\* the offset after the INC/GOTO pair of a scan, after the reset of a loop
PostLoop(p) == IF code[p] = LVM("LVM_Loop") THEN GotoOf(p) + 2 ELSE GotoOf(p) + 1

\* the installers whose words surround position j
Enclosing(j) == {p \in Installers : p < j /\ j < GotoOf(p)}

\* the exit address at position j: that of the innermost installer around
\* it, 0 if there is none
ExitAddressAt(j) ==
    IF Enclosing(j) = {} THEN 0
    ELSE PostLoop(CHOOSE p \in Enclosing(j) : \A q \in Enclosing(j) : q <= p)

\* the words before position j are the words of the condition c
ConditionBefore(j, c) ==
    /\ j > Len(wordsOf(c))
    /\ WordsAt(j - Len(wordsOf(c)), wordsOf(c))

\* C24: a scan hands to its nested operation the offset just after its
\* INC/GOTO pair, a loop to its body the offset just after its
\* LVM_ResetIterationNumber (header, body, LVM_IncIterationNumber, LVM_Goto
\* header, LVM_ResetIterationNumber, exit target); the other nodes hand on
\* the exit address they got; an Exit or a Break emits its condition and
\* then LVM_Jmpnz with the exit address it got.
C24_ExitAddressThreading ==
    (pc = "done" /\ entry \in ThreadPrograms) =>
        /\ \A p \in Installers :
              LET g == GotoOf(p)
              IN  /\ Cardinality({h \in OpPositions({"LVM_Goto"}) :
                                    code[h + 1] = code[g + 1]}) = 1
                  /\ IF code[p] = LVM("LVM_Loop")
                     THEN /\ code[g - 1] = LVM("LVM_IncIterationNumber")
                          /\ code[g + 2] = LVM("LVM_ResetIterationNumber")
                     ELSE /\ code[g - 2] = LVM("LVM_ITER_Inc")
                          /\ code[g - 1] = code[code[g + 1] + 2]
        /\ \A j \in ExitJumps :
              /\ Enclosing(j) # {}
              /\ code[j + 1] = ExitAddressAt(j)
              /\ code[j + 1] > j
              /\ ConditionBefore(j, ExitCondition)
                    \/ ConditionBefore(j, BreakCondition)
        /\ ExitJumps = OpPositions({"LVM_Jmpnz"})

\* a loop in a loop, lowered: the Exits of the inner loop go to the offset
\* after its reset, the Exit after it to the offset after the outer reset
C24_Witness ==
    /\ pc = "done"
    /\ entry \in ThreadPrograms
    /\ entry.k = "Loop"
    /\ \E j, l \in ExitJumps :
          /\ j < l
          /\ Cardinality(Enclosing(j)) = 2
          /\ Cardinality(Enclosing(l)) = 1
          /\ code[j + 1] < l
          /\ code[l + 1] = Len(code) - 1
          /\ code[code[j + 1]] = LVM("LVM_ResetIterationNumber")

(***************************************************************************)
(* Running an aggregate.                                                    *)
(***************************************************************************)
\* the sum of the values of a sequence, in the arithmetic of the domain
RECURSIVE sumOf(_)
sumOf(vs) == IF vs = <<>> THEN 0 ELSE wrap32(sumOf(Tail(vs)), Head(vs))

\* the aggregate of the values of the expression of the construct over rows,
\* of which only those that meet the condition count
aggregateOf(rows) ==
    LET met == SelectSeq(rows, LAMBDA row : holds(Construct.condition, row))
        vs == [i \in DOMAIN met |-> valueOf(Construct.expression, met[i])]
        f == Construct.function
    IN  CASE f = "COUNT" -> Len(vs)
          [] f = "SUM" -> sumOf(vs)
          [] f = "MIN" -> IF vs = <<>> THEN MAX_RAM_DOMAIN ELSE least(vs)
          [] f = "MAX" -> IF vs = <<>> THEN MIN_RAM_DOMAIN ELSE greatest(vs)

RunsLoopAggregate ==
    RunsAggregate(AggregateFunctions) /\ ~isCountShortcut(Construct)

\* C25: a run of an aggregate that is not the count shortcut writes into
\* the tuple of the aggregate the aggregate of the rows of the range that
\* meet the condition: their number for count, the sum of the expression
\* for sum (0 if none), its least resp. greatest value for min and max (the
\* seed if none). At every increment the accumulator is the aggregate of
\* the rows passed so far, so a row that fails the condition leaves it
\* unchanged, and the iterator advances past every row.
C25_AggregateResult ==
    RunsLoopAggregate =>
        LET incs == OffsetsOf({"LVM_ITER_Inc"})
            return == OffsetsOf({"LVM_Aggregate_Return"})
        IN  /\ machine.ip \in incs =>
                  machine.stack
                      = <<aggregateOf(SubSeq(InRange, 1, timesRun(incs) + 1))>>
            /\ return \cap machine.ran # {} =>
                  /\ machine.tuples[Construct.tupleId] = <<aggregateOf(InRange)>>
                  /\ timesRun(incs) = Len(InRange)
                  /\ machine.stack = <<>> \/ machine.ip \notin return
            /\ pc = "stopped" => return \subseteq machine.ran

\* a sum over two rows of which the first fails the condition, run to the
\* end: the result is the value of the second row
C25_Witness ==
    /\ pc = "stopped"
    /\ RunsLoopAggregate
    /\ Construct.function = "SUM"
    /\ Construct.condition # True
    /\ Len(InRange) = 2
    /\ ~holds(Construct.condition, InRange[1])
    /\ machine.tuples[Construct.tupleId] = <<2>>

\* C26: running a min or max aggregate over rows of which at least one is
\* in range and meets the condition executes the nested operation, whatever
\* the values of the expression over the matching rows (the seed included).
C26_MatchRunsBody ==
    (RunsAggregate({"MIN", "MAX"}) /\ Matching # <<>> /\ pc = "stopped") =>
        machine.ran \cap NestedWords # {}

\* a min over one matching row whose value is MAX_RAM_DOMAIN, run to the end
\* with the guard taken: the accumulator equals the seed although a row
\* matched, and no word of the nested operation was executed
C26_FailingInput ==
    /\ pc = "stopped"
    /\ RunsAggregate({"MIN"})
    /\ machine.input = <<<<MAX_RAM_DOMAIN, 1>>>>
    /\ Matching = machine.input
    /\ machine.tuples[Construct.tupleId] = <<MAX_RAM_DOMAIN>>
    /\ GuardJump \in machine.ran
    /\ machine.ran \cap NestedWords = {}

(***************************************************************************)
(* The label table over the two walks.                                      *)
(***************************************************************************)
\* the setAddress calls of a log for the label L
SetCalls(log, L) == {k \in DOMAIN log : log[k][1] = L}

\* every label allocated is set exactly once in the log, and no other
SetOnce(log, labels) ==
    /\ \A L \in 0..(labels - 1) : Cardinality(SetCalls(log, L)) = 1
    /\ \A k \in DOMAIN log : log[k][1] < labels

\* C27: in each walk every label allocated is given an address by
\* setAddress exactly once; after the first walk the label table has one
\* entry per label allocated; every setAddress call of the second walk
\* writes the value the table already holds, so the second walk leaves the
\* table as it found it; and one more walk over the same program with the
\* same table would emit the stream of the second walk.
C27_SecondWalkKeepsLabels ==
    /\ pc \in {"walked", "walked again"} =>
          /\ SetOnce(setLog, currentAddressLabel)
          /\ Len(addressMap) = currentAddressLabel
    /\ pc = "walked again" =>
          /\ SetOnce(firstWalk.setLog, firstWalk.currentAddressLabel)
          /\ Len(firstWalk.addressMap) = firstWalk.currentAddressLabel
          /\ \A k \in DOMAIN setLog :
                firstWalk.addressMap[setLog[k][1] + 1] = setLog[k][2]
          /\ addressMap = firstWalk.addressMap
          /\ LET third == visit(entry, 0, cleanUp(Generator))
             IN  /\ third.code = code
                 /\ third.addressMap = addressMap
                 /\ third.ioDirectives = ioDirectives

\* after the second walk of a program with at least three labels, one of
\* them read before it is set
C27_Witness ==
    /\ pc = "walked again"
    /\ currentAddressLabel >= 3
    /\ Len(setLog) >= 3
    /\ \E i \in LookupPositions : code[i] > i /\ firstWalk.code[i] = 0
    /\ addressMap = firstWalk.addressMap

(***************************************************************************)
(* The exit address below the searches that do not install one.             *)
(***************************************************************************)
\* C28: a choice or an aggregate, plain or indexed, hands the exit address
\* it got to its condition and its nested operation: the operand of the
\* jump of every Break and Exit is the offset after the innermost scan,
\* indexed scan or loop around it, which lies ahead of the jump, and 0 if
\* there is none around it.
C28_ForwardersPassExitAddress ==
    (pc = "done" /\ entry \in ForwardPrograms) =>
        \A j \in ExitJumps :
            /\ code[j + 1] = ExitAddressAt(j)
            /\ Enclosing(j) # {} => code[j + 1] > j /\ code[j + 1] < Len(code)
            /\ Enclosing(j) = {} => code[j + 1] = 0
            /\ ConditionBefore(j, ExitCondition)
                  \/ ConditionBefore(j, BreakCondition)

\* a Break in the nested operation of a choice below a scan, lowered: its
\* jump goes to the offset after the scan, beyond the end of the choice
C28_Witness ==
    /\ pc = "done"
    /\ entry \in ForwardPrograms
    /\ \E j \in ExitJumps, c \in OpPositions({"LVM_Choice"}) :
          /\ Enclosing(j) # {}
          /\ c < j
          /\ \A p \in Enclosing(j) : p < c
          /\ ConditionBefore(j, BreakCondition)
          /\ Enclosing(j) \subseteq OpPositions({"LVM_Scan"})
          /\ code[j + 1] = Len(code) - 1

(***************************************************************************)
(* Running timed statements.                                                *)
(***************************************************************************)
\* the steps of the run that executed a start word of the timer slot t
StartsRun(t) ==
    {i \in DOMAIN machine.trace :
        /\ machine.trace[i] + 1 \in TimerStarts
        /\ code[machine.trace[i] + 3] = t}

\* the steps of the run that executed the stop word of the timer slot t
StopsRun(t) ==
    {i \in DOMAIN machine.trace :
        /\ machine.trace[i] + 1 \in TimerStops
        /\ code[machine.trace[i] + 2] = t}

\* C29: in a run that has reached LVM_STOP, every execution of a start
\* word of a timer slot is followed by an execution of the stop word of
\* that slot, also when an Exit inside the timed statement jumps to the
\* exit address of a loop around the timer.
C29_StartedTimersStop ==
    pc = "stopped" =>
        \A t \in 0..(timerIndex - 1) :
            \A i \in StartsRun(t) : \E k \in StopsRun(t) : i < k

\* a loop whose body times its Exit, run over a non-empty relation to the
\* end: the timer was started in both iterations and stopped in the first
\* only, the Exit of the second having jumped past the stop word
C29_FailingInput ==
    /\ pc = "stopped"
    /\ entry = Loop(Sequence(<<LogTimer("t", Exit(EmptinessCheck(RelA))),
                               RelStmt("Clear", RelA)>>))
    /\ machine.input # <<>>
    /\ Cardinality(StartsRun(0)) = 2
    /\ Cardinality(StopsRun(0)) = 1
    /\ \E i \in StartsRun(0) : \A k \in StopsRun(0) : k < i

(***************************************************************************)
(* Adornment::run (MagicSet): the program it is given.                      *)
(***************************************************************************)
AstAtom(name, args) == [name |-> name, args |-> args]

\* a clause: its head, the atoms of its body and the left-hand sides of the
\* constraints of its body
AstClause(head, atoms, constraints) ==
    [head |-> head, atoms |-> atoms, constraints |-> constraints]

AstRelation(name, arity, output, clauses) ==
    [name |-> name, arity |-> arity, output |-> output, clauses |-> clauses]

\* clause->isFact(): a clause without a body
isFact(clause) == clause.atoms = <<>> /\ clause.constraints = <<>>

\* program->getRelation(name)
getRelation(program, name) ==
    program[CHOOSE i \in DOMAIN program : program[i].name = name]

\* edge(1,2).
EdgeRelation ==
    AstRelation("edge", 2, FALSE,
                <<AstClause(AstAtom("edge", <<"1", "2">>), <<>>, <<>>)>>)

\* path(x,y) :- edge(x,y).  path(x,z) :- edge(x,y), path(y,z).
PathRelation(output) ==
    AstRelation("path", 2, output,
        <<AstClause(AstAtom("path", <<"x", "y">>),
                    <<AstAtom("edge", <<"x", "y">>)>>, <<>>),
          AstClause(AstAtom("path", <<"x", "z">>),
                    <<AstAtom("edge", <<"x", "y">>),
                      AstAtom("path", <<"y", "z">>)>>, <<>>)>>)

\* query(y) :- path(x,y), x = 1.
QueryRelation ==
    AstRelation("query", 1, TRUE,
        <<AstClause(AstAtom("query", <<"y">>),
                    <<AstAtom("path", <<"x", "y">>)>>, <<"x">>)>>)

\* a(x,y) :- b(y,z), c(z), a(z,x).  a(x,x) :- c(x).  a(1,1).
\* b(x,y) :- a(y,x), c(x), b(x,x).  c(1).  d(x) :- x = 1.
MutualRelations(outputs) ==
    <<AstRelation("a", 2, "a" \in outputs,
        <<AstClause(AstAtom("a", <<"x", "y">>),
                    <<AstAtom("b", <<"y", "z">>), AstAtom("c", <<"z">>),
                      AstAtom("a", <<"z", "x">>)>>, <<>>),
          AstClause(AstAtom("a", <<"x", "x">>), <<AstAtom("c", <<"x">>)>>, <<>>),
          AstClause(AstAtom("a", <<"1", "1">>), <<>>, <<>>)>>),
      AstRelation("b", 2, "b" \in outputs,
        <<AstClause(AstAtom("b", <<"x", "y">>),
                    <<AstAtom("a", <<"y", "x">>), AstAtom("c", <<"x">>),
                      AstAtom("b", <<"x", "x">>)>>, <<>>)>>),
      AstRelation("c", 1, "c" \in outputs,
        <<AstClause(AstAtom("c", <<"1">>), <<>>, <<>>)>>),
      AstRelation("d", 1, "d" \in outputs,
        <<AstClause(AstAtom("d", <<"x">>), <<>>, <<"x">>)>>)>>

\* the programs adorned: recursion, mutual recursion, constraints that bind,
\* several output relations and none
AdornPrograms ==
    {<<EdgeRelation, PathRelation(TRUE)>>,
     <<QueryRelation, EdgeRelation, PathRelation(FALSE)>>,
     <<QueryRelation, EdgeRelation, PathRelation(TRUE)>>,
     <<EdgeRelation, PathRelation(FALSE)>>}
        \cup {MutualRelations(outputs) :
                outputs \in {{"a"}, {"b"}, {"a", "b"}, {"c", "d"}, {"b", "d"}}}

(***************************************************************************)
(* Adornment::run: its steps.                                               *)
(***************************************************************************)
\* an atom that is done: atoms[i] = nullptr
nullptr == [name |-> "", args |-> <<>>]

AdornedPredicate(name, pattern) == [name |-> name, adornment |-> pattern]

AdornedClause(clause, headAdornment, bodyAdornment, ordering) ==
    [clause |-> clause, headAdornment |-> headAdornment,
     bodyAdornment |-> bodyAdornment, ordering |-> ordering]

\* the locals and members before the first statement of run
StartAdornment(program) ==
    [at |-> "setup", program |-> program, outputQueries |-> <<>>,
     m_relations |-> <<>>, m_edb |-> {}, m_idb |-> {},
     m_adornedClauses |-> <<>>, query |-> 1,
     currentPredicates |-> <<>>, seenPredicates |-> {},
     adornedClauses |-> <<>>, currPredicate |-> AdornedPredicate("", <<>>),
     clauses |-> <<>>, clause |-> AstClause(nullptr, <<>>, <<>>),
     headAdornment |-> <<>>, atoms |-> <<>>, boundedArgs |-> {},
     atomsAdorned |-> 0, atomsTotal |-> 0, ordering |-> <<>>,
     clauseAtomAdornments |-> <<>>, processed |-> <<>>, iterations |-> 0]

AdornInit ==
    /\ pc = "adornment"
    /\ entry = [k |-> "none"]
    /\ ramDomainSize = 32
    /\ shiftUB = "wrap"
    /\ relNameToIndex = <<>>
    /\ relationMap = <<>>
    /\ symbolTable = <<>>
    /\ NewGenerator
    /\ lastCall = noCall
    /\ machine = noMachine
    /\ \E program \in AdornPrograms : adornment = StartAdornment(program)

GeneratorIdle ==
    UNCHANGED <<pc, entry, ramDomainSize, shiftUB, relNameToIndex, relationMap,
                symbolTable, code, origin, ioDirectives, currentAddressLabel,
                addressMap, iteratorIndex, timerIndex, setLog, firstWalk,
                lastCall, machine>>

\* for (AstRelation* rel : program->getRelations()): the output relations,
\* and the relations without and with a clause that is not a fact
Setup ==
    /\ adornment.at = "setup"
    /\ LET program == adornment.program
           outputs == SelectSeq(program, LAMBDA rel : rel.output)
           names == [i \in DOMAIN outputs |-> outputs[i].name]
           idb == {program[i].name : i \in
                      {i \in DOMAIN program :
                          \E c \in DOMAIN program[i].clauses :
                              ~isFact(program[i].clauses[c])}}
       IN  adornment' = [adornment EXCEPT
                            !.at = "query", !.outputQueries = names,
                            !.m_relations = names, !.m_idb = idb,
                            !.m_edb = {program[i].name : i \in DOMAIN program}
                                          \ idb]
    /\ GeneratorIdle

\* for (std::string outputQuery : outputQueries): the worklist and the seen
\* set start with the output predicate, all its arguments free
NextQuery ==
    /\ adornment.at = "query"
    /\ adornment.query <= Len(adornment.outputQueries)
    /\ LET outputQuery == adornment.outputQueries[adornment.query]
           arity == getRelation(adornment.program, outputQuery).arity
           outputPredicate == AdornedPredicate(outputQuery, [i \in 1..arity |-> "f"])
       IN  adornment' = [adornment EXCEPT
                            !.at = "worklist",
                            !.currentPredicates = <<outputPredicate>>,
                            !.seenPredicates = {outputPredicate},
                            !.adornedClauses = <<>>, !.processed = <<>>]
    /\ GeneratorIdle

\* the end of the loop over the output queries
Return ==
    /\ adornment.at = "query"
    /\ adornment.query > Len(adornment.outputQueries)
    /\ adornment' = [adornment EXCEPT !.at = "returned"]
    /\ GeneratorIdle

\* while (!currentPredicates.empty()): pop the first element
PopPredicate ==
    /\ adornment.at = "worklist"
    /\ adornment.currentPredicates # <<>>
    /\ LET currPredicate == Head(adornment.currentPredicates)
           rel == getRelation(adornment.program, currPredicate.name)
       IN  adornment' = [adornment EXCEPT
                            !.at = "clauses", !.currPredicate = currPredicate,
                            !.currentPredicates = Tail(@),
                            !.clauses = rel.clauses,
                            !.processed = Append(@, currPredicate)]
    /\ GeneratorIdle

\* the worklist is empty: m_adornedClauses.push_back(adornedClauses)
EndQuery ==
    /\ adornment.at = "worklist"
    /\ adornment.currentPredicates = <<>>
    /\ adornment' = [adornment EXCEPT
                        !.at = "query", !.query = @ + 1,
                        !.m_adornedClauses = Append(@, adornment.adornedClauses)]
    /\ GeneratorIdle

\* for (AstClause* clause : rel->getClauses()): a fact is skipped; else the
\* arguments bound by the head adornment and by the constraints are marked
NextClause ==
    /\ adornment.at = "clauses"
    /\ adornment.clauses # <<>>
    /\ LET clause == Head(adornment.clauses)
           headAdornment == adornment.currPredicate.adornment
           headArguments == clause.head.args
           atomsTotal == Len(clause.atoms)
           boundedArgs ==
               {headArguments[argnum] : argnum \in
                   {a \in DOMAIN headArguments : headAdornment[a] = "b"}}
                 \cup {clause.constraints[c] : c \in DOMAIN clause.constraints}
       IN  adornment' =
             IF isFact(clause) THEN [adornment EXCEPT !.clauses = Tail(@)]
             ELSE [adornment EXCEPT
                      !.at = "atoms", !.clauses = Tail(@), !.clause = clause,
                      !.headAdornment = headAdornment,
                      !.boundedArgs = boundedArgs, !.atoms = clause.atoms,
                      !.atomsAdorned = 0, !.atomsTotal = atomsTotal,
                      !.ordering = [i \in 1..atomsTotal |-> 0],
                      !.clauseAtomAdornments = [i \in 1..atomsTotal |-> <<>>],
                      !.iterations = 0]
    /\ GeneratorIdle

\* the end of the loop over the clauses of the relation
EndClauses ==
    /\ adornment.at = "clauses"
    /\ adornment.clauses = <<>>
    /\ adornment' = [adornment EXCEPT !.at = "worklist"]
    /\ GeneratorIdle

\* the adornment pattern of an atom: 'b' for an argument that is bounded,
\* 'f' for one that is not, which is bounded from then on
RECURSIVE adornArguments(_, _)
adornArguments(args, boundedArgs) ==
    IF args = <<>> THEN [atomAdornment |-> <<>>, boundedArgs |-> boundedArgs]
    ELSE LET rest == adornArguments(Tail(args), boundedArgs \cup {Head(args)})
         IN  [atomAdornment |->
                <<IF Head(args) \in boundedArgs THEN "b" ELSE "f">>
                    \o rest.atomAdornment,
              boundedArgs |-> rest.boundedArgs]

\* seenPredicates.insert(p)
insertSeen(seenPredicates, p) == seenPredicates \cup {p}

\* a faulty adornment of an atom: atoms[i] is not set to nullptr
adornAtom_keepsAtom(a, i) ==
    LET currAtom == a.atoms[i]
        adorned == adornArguments(currAtom.args, a.boundedArgs)
        p == AdornedPredicate(currAtom.name, adorned.atomAdornment)
        seenBefore == \E seenPred \in a.seenPredicates :
                          /\ seenPred.name = p.name
                          /\ seenPred.adornment = p.adornment
    IN  [a EXCEPT
            !.boundedArgs = adorned.boundedArgs,
            !.currentPredicates = IF seenBefore THEN @ ELSE Append(@, p),
            !.seenPredicates = IF seenBefore THEN @ ELSE insertSeen(@, p),
            !.clauseAtomAdornments[i] = adorned.atomAdornment,
            !.ordering[i] = a.atomsAdorned,
            !.atomsAdorned = @ + 1]

\* the atom i is adorned: its pattern is found, the adorned predicate goes
\* to the worklist and the seen set unless it was seen before, the pattern
\* and the position in the ordering are recorded and the atom is done
adornAtom(a, i) ==
    LET currAtom == a.atoms[i]
        adorned == adornArguments(currAtom.args, a.boundedArgs)
        p == AdornedPredicate(currAtom.name, adorned.atomAdornment)
        seenBefore == \E seenPred \in a.seenPredicates :
                          /\ seenPred.name = p.name
                          /\ seenPred.adornment = p.adornment
    IN  [a EXCEPT
            !.boundedArgs = adorned.boundedArgs,
            !.currentPredicates = IF seenBefore THEN @ ELSE Append(@, p),
            !.seenPredicates = IF seenBefore THEN @ ELSE insertSeen(@, p),
            !.clauseAtomAdornments[i] = adorned.atomAdornment,
            !.ordering[i] = a.atomsAdorned,
            !.atoms[i] = nullptr,
            !.atomsAdorned = @ + 1]

\* the least index of a set of indices
firstOf(indices) == CHOOSE i \in indices : \A j \in indices : i <= j

\* while (atomsAdorned < atomsTotal): one pass of the body. The first atom
\* with a bounded argument is adorned; if there is none, the first atom
\* whose text is found in m_edb, and if there is none either, the first
\* atom that is not done. found: the atoms whose text m_edb.find finds (the
\* text is written by the printer of AstAtom).
AdornAtom(found) ==
    /\ adornment.at = "atoms"
    /\ adornment.atomsAdorned < adornment.atomsTotal
    /\ LET atoms == adornment.atoms
           left == {i \in DOMAIN atoms : atoms[i] # nullptr}
           bound == {i \in left : \E k \in DOMAIN atoms[i].args :
                                     atoms[i].args[k] \in adornment.boundedArgs}
           edb == found \cap left
           i == IF bound # {} THEN firstOf(bound)
                ELSE IF edb # {} THEN firstOf(edb)
                ELSE firstOf(left)
       IN  adornment' = [adornAtom(adornment, i) EXCEPT !.iterations = @ + 1]
    /\ GeneratorIdle

\* the atoms are all adorned: adornedClauses.push_back(AdornedClause(...))
EndClause ==
    /\ adornment.at = "atoms"
    /\ adornment.atomsAdorned >= adornment.atomsTotal
    /\ adornment' = [adornment EXCEPT
                        !.at = "clauses",
                        !.adornedClauses =
                            Append(@, AdornedClause(adornment.clause,
                                                    adornment.headAdornment,
                                                    adornment.clauseAtomAdornments,
                                                    adornment.ordering))]
    /\ GeneratorIdle

AdornNext ==
    \/ Setup
    \/ NextQuery
    \/ Return
    \/ PopPredicate
    \/ EndQuery
    \/ NextClause
    \/ EndClauses
    \/ \E found \in SUBSET (DOMAIN adornment.atoms) : AdornAtom(found)
    \/ EndClause

AdornSpec == AdornInit /\ [][AdornNext]_vars

\* run is one call that is not interrupted: a step that can be taken is taken
AdornLiveSpec == AdornSpec /\ WF_vars(AdornNext)

\* the elements of a sequence are pairwise different
NoRepeat(seq) == \A i, j \in DOMAIN seq : i # j => seq[i] # seq[j]

Elements(seq) == {seq[i] : i \in DOMAIN seq}

\* the worklist holds what was put into the seen set and not yet popped
WorklistLaw ==
    adornment.at \in {"worklist", "clauses", "atoms"} =>
        /\ NoRepeat(adornment.processed \o adornment.currentPredicates)
        /\ adornment.seenPredicates
              = Elements(adornment.processed \o adornment.currentPredicates)

\* every pass of the inner loop has adorned one atom that was not done
AtomLaw ==
    adornment.at = "atoms" =>
        LET done == {i \in DOMAIN adornment.atoms : adornment.atoms[i] = nullptr}
        IN  /\ adornment.iterations = adornment.atomsAdorned
            /\ Cardinality(done) = adornment.atomsAdorned
            /\ adornment.atomsAdorned <= adornment.atomsTotal
            /\ {adornment.ordering[i] : i \in done}
                  = 0..(adornment.atomsAdorned - 1)
            /\ \A i \in done : adornment.clauseAtomAdornments[i] # <<>>
                                  \/ adornment.clause.atoms[i].args = <<>>

\* the ordering recorded for a clause is a permutation of 0..n-1
OrderingLaw ==
    \A k \in DOMAIN adornment.adornedClauses :
        LET c == adornment.adornedClauses[k]
            n == Len(c.clause.atoms)
        IN  /\ Len(c.ordering) = n
            /\ {c.ordering[i] : i \in 1..n} = 0..(n - 1)

\* C30: Adornment::run returns for every program: per output query an
\* adorned predicate goes to the worklist only when it is not in the seen
\* set and is put into the seen set with it, so none is popped twice; and
\* for a clause that is not a fact every pass of the inner loop adorns one
\* atom not yet adorned, so the loop ends after as many passes as the clause
\* has atoms and the ordering recorded is a permutation of 0..n-1.
C30_AdornmentTerminates ==
    /\ [](adornment.at # "none" => WorklistLaw /\ AtomLaw /\ OrderingLaw)
    /\ <>(adornment.at = "returned")

\* run has returned from a program with two output queries; the last query
\* popped three adorned predicates or more, and a clause of three atoms was
\* adorned in an order that is not the order of its body
C30_Witness ==
    /\ adornment.at = "returned"
    /\ Len(adornment.m_adornedClauses) = 2
    /\ Len(adornment.processed) >= 3
    /\ \E q \in DOMAIN adornment.m_adornedClauses :
          \E k \in DOMAIN adornment.m_adornedClauses[q] :
              LET c == adornment.m_adornedClauses[q][k]
              IN  /\ Len(c.ordering) = 3
                  /\ c.ordering # <<0, 1, 2>>

====
